---- MODULE Spec2Model ----
(***************************************************************************)
(* A model of the visatax tax engine (src/services/taxCalculator.ts) and   *)
(* of its reference tables.  calculateTax is modelled as a state machine   *)
(* that walks through the stages of the function; the two bracket loops    *)
(* advance one bracket per step.                                           *)
(*                                                                         *)
(* Numbers.  A JavaScript number is modelled as an exact rational          *)
(* [neg, n, d] (sign, numerator and denominator as arbitrary-size          *)
(* naturals, little-endian limbs of base 10000), and Infinity as the       *)
(* value with denominator zero.  Floating-point rounding is not modelled.  *)
(***************************************************************************)
EXTENDS Integers, Sequences, FiniteSets, TLC

\* ------------------------------------------------------------------------
\* Arbitrary-size naturals: <<>> is 0, limbs are 0..9999, no leading zeros.
\* ------------------------------------------------------------------------

RECURSIVE Big(_)
Big(k) == IF k = 0 THEN <<>> ELSE <<k % 10000>> \o Big(k \div 10000)

RECURSIVE BTrim(_)
BTrim(a) ==
    IF a = <<>> THEN <<>>
    ELSE IF a[Len(a)] = 0 THEN BTrim(SubSeq(a, 1, Len(a) - 1))
    ELSE a

RECURSIVE BAddC(_, _, _)
BAddC(a, b, c) ==
    IF a = <<>> /\ b = <<>> THEN (IF c = 0 THEN <<>> ELSE <<c>>)
    ELSE LET x == IF a = <<>> THEN 0 ELSE Head(a)
             y == IF b = <<>> THEN 0 ELSE Head(b)
             s == x + y + c
         IN  <<s % 10000>> \o BAddC(IF a = <<>> THEN <<>> ELSE Tail(a),
                                    IF b = <<>> THEN <<>> ELSE Tail(b),
                                    s \div 10000)

BAdd(a, b) == IF a = <<>> THEN b ELSE IF b = <<>> THEN a ELSE BAddC(a, b, 0)

\* a - b for a >= b
RECURSIVE BSubC(_, _, _)
BSubC(a, b, c) ==
    IF a = <<>> THEN <<>>
    ELSE LET y == IF b = <<>> THEN 0 ELSE Head(b)
             s == Head(a) - y - c
         IN  <<s % 10000>> \o BSubC(Tail(a),
                                    IF b = <<>> THEN <<>> ELSE Tail(b),
                                    IF s < 0 THEN 1 ELSE 0)

BSub(a, b) == IF b = <<>> THEN a ELSE BTrim(BSubC(a, b, 0))

\* -1, 0, 1 as a < b, a = b, a > b
RECURSIVE BCmpFrom(_, _, _)
BCmpFrom(a, b, i) ==
    IF i = 0 THEN 0
    ELSE IF a[i] < b[i] THEN -1
    ELSE IF a[i] > b[i] THEN 1
    ELSE BCmpFrom(a, b, i - 1)

BCmp(a, b) ==
    IF Len(a) < Len(b) THEN -1
    ELSE IF Len(a) > Len(b) THEN 1
    ELSE BCmpFrom(a, b, Len(a))

RECURSIVE BMulLimb(_, _, _)
BMulLimb(a, k, c) ==
    IF a = <<>> THEN (IF c = 0 THEN <<>> ELSE <<c>>)
    ELSE LET s == Head(a) * k + c
         IN  <<s % 10000>> \o BMulLimb(Tail(a), k, s \div 10000)

RECURSIVE BMulRec(_, _)
BMulRec(a, b) ==
    IF b = <<>> THEN <<>>
    ELSE LET rest == BMulRec(a, Tail(b))
         IN  BAdd(IF Head(b) = 0 THEN <<>> ELSE BMulLimb(a, Head(b), 0),
                  IF rest = <<>> THEN <<>> ELSE <<0>> \o rest)

BMul(a, b) ==
    IF a = <<>> \/ b = <<>> THEN <<>>
    ELSE IF a = <<1>> THEN b
    ELSE IF b = <<1>> THEN a
    ELSE BMulRec(a, b)

\* ------------------------------------------------------------------------
\* JavaScript numbers as exact rationals; d = <<>> is Infinity.
\* ------------------------------------------------------------------------

Rat(neg, n, d) == [neg |-> neg /\ n # <<>>, n |-> n, d |-> d]

\* the number p / q, for integers p and q > 0
Frac(p, q) == Rat(p < 0, Big(IF p < 0 THEN 0 - p ELSE p), Big(q))

Num(k) == Frac(k, 1)

Zero == Num(0)

\* Infinity as a large number
Infinity_LargeNumber == [neg |-> FALSE, n |-> <<0, 0, 1>>, d |-> <<1>>]

Infinity == [neg |-> FALSE, n |-> <<1>>, d |-> <<>>]

IsInfinity(x) == x.d = <<>>

\* signed sum of the numerators of x and y, over the denominator d
SignedSum(xn, xneg, yn, yneg, d) ==
    IF xneg = yneg THEN Rat(xneg, BAdd(xn, yn), d)
    ELSE IF BCmp(xn, yn) >= 0 THEN Rat(xneg, BSub(xn, yn), d)
    ELSE Rat(yneg, BSub(yn, xn), d)

Plus(x, y) ==
    IF IsInfinity(x) THEN x
    ELSE IF IsInfinity(y) THEN y
    ELSE IF x.d = y.d THEN SignedSum(x.n, x.neg, y.n, y.neg, x.d)
    ELSE SignedSum(BMul(x.n, y.d), x.neg, BMul(y.n, x.d), y.neg, BMul(x.d, y.d))

Neg(x) == Rat(~x.neg, x.n, x.d)

\* x - y; Infinity - y is Infinity (y finite)
Minus(x, y) == Plus(x, Neg(y))

\* x * y for finite x and y
Times(x, y) == Rat(x.neg # y.neg, BMul(x.n, y.n), BMul(x.d, y.d))

\* x / y for finite x and y # 0
Over(x, y) == Rat(x.neg # y.neg, BMul(x.n, y.d), BMul(x.d, y.n))

\* -1, 0, 1 as x < y, x = y, x > y
Cmp(x, y) ==
    IF IsInfinity(x) THEN (IF IsInfinity(y) THEN 0 ELSE 1)
    ELSE IF IsInfinity(y) THEN -1
    ELSE IF x.neg /\ ~y.neg THEN -1
    ELSE IF ~x.neg /\ y.neg THEN 1
    ELSE LET c == BCmp(BMul(x.n, y.d), BMul(y.n, x.d))
         IN  IF x.neg THEN 0 - c ELSE c

Eq(x, y) == Cmp(x, y) = 0
Lt(x, y) == Cmp(x, y) < 0
Le(x, y) == Cmp(x, y) <= 0
Gt(x, y) == Cmp(x, y) > 0

MathMin(x, y) == IF Le(x, y) THEN x ELSE y
MathMax(x, y) == IF Le(y, x) THEN x ELSE y

\* ------------------------------------------------------------------------
\* Enumerations (types.ts)
\* ------------------------------------------------------------------------

F1 == "F-1 Student"
H1B == "H-1B Worker"

INDIA == "India"
CHINA == "China"
COUNTRY_OTHER == "Other"

YEARLY == "Yearly"
MONTHLY == "Monthly"

SINGLE == "Single"
MARRIED_JOINT == "Married Filing Jointly"

\* the value of an absent optional field
undefined == "undefined"

\* ------------------------------------------------------------------------
\* Reference tables (constants.ts)
\* ------------------------------------------------------------------------

\* a decimal literal of at most five decimals, given in hundred-thousandths
Rate(p) == Frac(p, 100000)

TAX_DATA ==
    2024 :> [ STANDARD_DEDUCTION |-> (SINGLE :> Num(14600)) @@ (MARRIED_JOINT :> Num(29200)),
             SS_WAGE_BASE |-> Num(168600),
             BRACKETS |->
               (SINGLE :>
                  << [limit |-> Num(11600), rate |-> Rate(10000)],
                     [limit |-> Num(47150), rate |-> Rate(12000)],
                     [limit |-> Num(100525), rate |-> Rate(22000)],
                     [limit |-> Num(191950), rate |-> Rate(24000)],
                     [limit |-> Num(243725), rate |-> Rate(32000)],
                     [limit |-> Num(609350), rate |-> Rate(35000)],
                     [limit |-> Infinity, rate |-> Rate(37000)] >>)
               @@ (MARRIED_JOINT :>
                  << [limit |-> Num(23200), rate |-> Rate(10000)],
                     [limit |-> Num(94300), rate |-> Rate(12000)],
                     [limit |-> Num(201050), rate |-> Rate(22000)],
                     [limit |-> Num(383900), rate |-> Rate(24000)],
                     [limit |-> Num(487450), rate |-> Rate(32000)],
                     [limit |-> Num(731200), rate |-> Rate(35000)],
                     [limit |-> Infinity, rate |-> Rate(37000)] >>) ]
    @@
    2025 :> [ STANDARD_DEDUCTION |-> (SINGLE :> Num(15000)) @@ (MARRIED_JOINT :> Num(30000)),
             SS_WAGE_BASE |-> Num(176100),
             BRACKETS |->
               (SINGLE :>
                  << [limit |-> Num(11925), rate |-> Rate(10000)],
                     [limit |-> Num(48475), rate |-> Rate(12000)],
                     [limit |-> Num(103350), rate |-> Rate(22000)],
                     [limit |-> Num(197300), rate |-> Rate(24000)],
                     [limit |-> Num(250525), rate |-> Rate(32000)],
                     [limit |-> Num(626350), rate |-> Rate(35000)],
                     [limit |-> Infinity, rate |-> Rate(37000)] >>)
               @@ (MARRIED_JOINT :>
                  << [limit |-> Num(23850), rate |-> Rate(10000)],
                     [limit |-> Num(96950), rate |-> Rate(12000)],
                     [limit |-> Num(206700), rate |-> Rate(22000)],
                     [limit |-> Num(394600), rate |-> Rate(24000)],
                     [limit |-> Num(501050), rate |-> Rate(32000)],
                     [limit |-> Num(751600), rate |-> Rate(35000)],
                     [limit |-> Infinity, rate |-> Rate(37000)] >>) ]

STATES_LIST ==
    << [name |-> "Alaska", minRate |-> Rate(0), maxRate |-> Rate(0), category |-> "none"],
       [name |-> "Florida", minRate |-> Rate(0), maxRate |-> Rate(0), category |-> "none"],
       [name |-> "Nevada", minRate |-> Rate(0), maxRate |-> Rate(0), category |-> "none"],
       [name |-> "New Hampshire", minRate |-> Rate(0), maxRate |-> Rate(0), category |-> "none"],
       [name |-> "South Dakota", minRate |-> Rate(0), maxRate |-> Rate(0), category |-> "none"],
       [name |-> "Tennessee", minRate |-> Rate(0), maxRate |-> Rate(0), category |-> "none"],
       [name |-> "Texas", minRate |-> Rate(0), maxRate |-> Rate(0), category |-> "none"],
       [name |-> "Wyoming", minRate |-> Rate(0), maxRate |-> Rate(0), category |-> "none"],
       [name |-> "Arizona", minRate |-> Rate(2500), maxRate |-> Rate(2500), category |-> "flat"],
       [name |-> "Colorado", minRate |-> Rate(4400), maxRate |-> Rate(4400), category |-> "flat"],
       [name |-> "Georgia", minRate |-> Rate(5190), maxRate |-> Rate(5190), category |-> "flat"],
       [name |-> "Idaho", minRate |-> Rate(5300), maxRate |-> Rate(5300), category |-> "flat"],
       [name |-> "Illinois", minRate |-> Rate(4950), maxRate |-> Rate(4950), category |-> "flat"],
       [name |-> "Indiana", minRate |-> Rate(3000), maxRate |-> Rate(3000), category |-> "flat"],
       [name |-> "Iowa", minRate |-> Rate(3800), maxRate |-> Rate(3800), category |-> "flat"],
       [name |-> "Kentucky", minRate |-> Rate(4000), maxRate |-> Rate(4000), category |-> "flat"],
       [name |-> "Louisiana", minRate |-> Rate(3000), maxRate |-> Rate(3000), category |-> "flat"],
       [name |-> "Michigan", minRate |-> Rate(4250), maxRate |-> Rate(4250), category |-> "flat"],
       [name |-> "Mississippi", minRate |-> Rate(4400), maxRate |-> Rate(4400), category |-> "flat"],
       [name |-> "North Carolina", minRate |-> Rate(4250), maxRate |-> Rate(4250), category |-> "flat"],
       [name |-> "Pennsylvania", minRate |-> Rate(3070), maxRate |-> Rate(3070), category |-> "flat"],
       [name |-> "Utah", minRate |-> Rate(4500), maxRate |-> Rate(4500), category |-> "flat"],
       [name |-> "Washington", minRate |-> Rate(0), maxRate |-> Rate(0), category |-> "flat"],
       [name |-> "Alabama", minRate |-> Rate(2000), maxRate |-> Rate(5000), category |-> "graduated"],
       [name |-> "Arkansas", minRate |-> Rate(0), maxRate |-> Rate(3900), category |-> "graduated"],
       [name |-> "California", minRate |-> Rate(1000), maxRate |-> Rate(13300), category |-> "graduated"],
       [name |-> "Connecticut", minRate |-> Rate(2000), maxRate |-> Rate(6990), category |-> "graduated"],
       [name |-> "Delaware", minRate |-> Rate(0), maxRate |-> Rate(6600), category |-> "graduated"],
       [name |-> "District of Columbia", minRate |-> Rate(4000), maxRate |-> Rate(10750), category |-> "graduated"],
       [name |-> "Hawaii", minRate |-> Rate(1400), maxRate |-> Rate(11000), category |-> "graduated"],
       [name |-> "Kansas", minRate |-> Rate(5200), maxRate |-> Rate(5580), category |-> "graduated"],
       [name |-> "Maine", minRate |-> Rate(5800), maxRate |-> Rate(7150), category |-> "graduated"],
       [name |-> "Maryland", minRate |-> Rate(2000), maxRate |-> Rate(6500), category |-> "graduated"],
       [name |-> "Massachusetts", minRate |-> Rate(5000), maxRate |-> Rate(9000), category |-> "graduated"],
       [name |-> "Minnesota", minRate |-> Rate(5350), maxRate |-> Rate(9850), category |-> "graduated"],
       [name |-> "Missouri", minRate |-> Rate(2000), maxRate |-> Rate(4700), category |-> "graduated"],
       [name |-> "Montana", minRate |-> Rate(4700), maxRate |-> Rate(5900), category |-> "graduated"],
       [name |-> "Nebraska", minRate |-> Rate(2460), maxRate |-> Rate(5200), category |-> "graduated"],
       [name |-> "New Jersey", minRate |-> Rate(1400), maxRate |-> Rate(10750), category |-> "graduated"],
       [name |-> "New Mexico", minRate |-> Rate(1700), maxRate |-> Rate(5900), category |-> "graduated"],
       [name |-> "New York", minRate |-> Rate(4000), maxRate |-> Rate(10900), category |-> "graduated"],
       [name |-> "North Dakota", minRate |-> Rate(0), maxRate |-> Rate(2500), category |-> "graduated"],
       [name |-> "Ohio", minRate |-> Rate(0), maxRate |-> Rate(3125), category |-> "graduated"],
       [name |-> "Oklahoma", minRate |-> Rate(250), maxRate |-> Rate(4750), category |-> "graduated"],
       [name |-> "Oregon", minRate |-> Rate(4750), maxRate |-> Rate(9900), category |-> "graduated"],
       [name |-> "Rhode Island", minRate |-> Rate(3750), maxRate |-> Rate(5990), category |-> "graduated"],
       [name |-> "South Carolina", minRate |-> Rate(0), maxRate |-> Rate(6000), category |-> "graduated"],
       [name |-> "Vermont", minRate |-> Rate(3350), maxRate |-> Rate(8750), category |-> "graduated"],
       [name |-> "Virginia", minRate |-> Rate(2000), maxRate |-> Rate(5750), category |-> "graduated"],
       [name |-> "West Virginia", minRate |-> Rate(2220), maxRate |-> Rate(4820), category |-> "graduated"],
       [name |-> "Wisconsin", minRate |-> Rate(3500), maxRate |-> Rate(7650), category |-> "graduated"] >>

STATE_GRADUATED_BRACKETS ==
    "California" :>
       ((SINGLE :>
          << [limit |-> Num(10412), rate |-> Rate(1000)],
             [limit |-> Num(24684), rate |-> Rate(2000)],
             [limit |-> Num(38959), rate |-> Rate(4000)],
             [limit |-> Num(54081), rate |-> Rate(6000)],
             [limit |-> Num(68350), rate |-> Rate(8000)],
             [limit |-> Num(349137), rate |-> Rate(9300)],
             [limit |-> Num(418961), rate |-> Rate(10300)],
             [limit |-> Num(698271), rate |-> Rate(11300)],
             [limit |-> Infinity, rate |-> Rate(12300)] >>)
        @@ (MARRIED_JOINT :>
          << [limit |-> Num(20824), rate |-> Rate(1000)],
             [limit |-> Num(49368), rate |-> Rate(2000)],
             [limit |-> Num(77918), rate |-> Rate(4000)],
             [limit |-> Num(108162), rate |-> Rate(6000)],
             [limit |-> Num(136700), rate |-> Rate(8000)],
             [limit |-> Num(698274), rate |-> Rate(9300)],
             [limit |-> Num(837922), rate |-> Rate(10300)],
             [limit |-> Num(1396542), rate |-> Rate(11300)],
             [limit |-> Infinity, rate |-> Rate(12300)] >>))
    @@
    "New York" :>
       ((SINGLE :>
          << [limit |-> Num(8500), rate |-> Rate(4000)],
             [limit |-> Num(11700), rate |-> Rate(4500)],
             [limit |-> Num(13900), rate |-> Rate(5250)],
             [limit |-> Num(80650), rate |-> Rate(5500)],
             [limit |-> Num(215400), rate |-> Rate(6000)],
             [limit |-> Num(1077550), rate |-> Rate(6850)],
             [limit |-> Num(5000000), rate |-> Rate(9650)],
             [limit |-> Num(25000000), rate |-> Rate(10300)],
             [limit |-> Infinity, rate |-> Rate(10900)] >>)
        @@ (MARRIED_JOINT :>
          << [limit |-> Num(17150), rate |-> Rate(4000)],
             [limit |-> Num(23600), rate |-> Rate(4500)],
             [limit |-> Num(27900), rate |-> Rate(5250)],
             [limit |-> Num(161550), rate |-> Rate(5500)],
             [limit |-> Num(323200), rate |-> Rate(6000)],
             [limit |-> Num(2155350), rate |-> Rate(6850)],
             [limit |-> Num(5000000), rate |-> Rate(9650)],
             [limit |-> Num(25000000), rate |-> Rate(10300)],
             [limit |-> Infinity, rate |-> Rate(10900)] >>))
    @@
    "New Jersey" :>
       ((SINGLE :>
          << [limit |-> Num(20000), rate |-> Rate(1400)],
             [limit |-> Num(35000), rate |-> Rate(1750)],
             [limit |-> Num(40000), rate |-> Rate(3500)],
             [limit |-> Num(75000), rate |-> Rate(5525)],
             [limit |-> Num(500000), rate |-> Rate(6370)],
             [limit |-> Num(1000000), rate |-> Rate(8970)],
             [limit |-> Infinity, rate |-> Rate(10750)] >>)
        @@ (MARRIED_JOINT :>
          << [limit |-> Num(20000), rate |-> Rate(1400)],
             [limit |-> Num(50000), rate |-> Rate(1750)],
             [limit |-> Num(70000), rate |-> Rate(2450)],
             [limit |-> Num(80000), rate |-> Rate(3500)],
             [limit |-> Num(150000), rate |-> Rate(5525)],
             [limit |-> Num(500000), rate |-> Rate(6370)],
             [limit |-> Num(1000000), rate |-> Rate(8970)],
             [limit |-> Infinity, rate |-> Rate(10750)] >>))
    @@
    "Massachusetts" :>
       ((SINGLE :>
          << [limit |-> Infinity, rate |-> Rate(5000)] >>)
        @@ (MARRIED_JOINT :>
          << [limit |-> Infinity, rate |-> Rate(5000)] >>))
    @@
    "Virginia" :>
       ((SINGLE :>
          << [limit |-> Num(3000), rate |-> Rate(2000)],
             [limit |-> Num(5000), rate |-> Rate(3000)],
             [limit |-> Num(17000), rate |-> Rate(5000)],
             [limit |-> Infinity, rate |-> Rate(5750)] >>)
        @@ (MARRIED_JOINT :>
          << [limit |-> Num(3000), rate |-> Rate(2000)],
             [limit |-> Num(5000), rate |-> Rate(3000)],
             [limit |-> Num(17000), rate |-> Rate(5000)],
             [limit |-> Infinity, rate |-> Rate(5750)] >>))
    @@
    "Alabama" :>
       ((SINGLE :>
          << [limit |-> Num(500), rate |-> Rate(2000)],
             [limit |-> Num(3000), rate |-> Rate(4000)],
             [limit |-> Infinity, rate |-> Rate(5000)] >>)
        @@ (MARRIED_JOINT :>
          << [limit |-> Num(1000), rate |-> Rate(2000)],
             [limit |-> Num(6000), rate |-> Rate(4000)],
             [limit |-> Infinity, rate |-> Rate(5000)] >>))
    @@
    "Connecticut" :>
       ((SINGLE :>
          << [limit |-> Num(10000), rate |-> Rate(3000)],
             [limit |-> Num(50000), rate |-> Rate(5000)],
             [limit |-> Num(100000), rate |-> Rate(5500)],
             [limit |-> Num(200000), rate |-> Rate(6000)],
             [limit |-> Num(250000), rate |-> Rate(6500)],
             [limit |-> Num(500000), rate |-> Rate(6900)],
             [limit |-> Infinity, rate |-> Rate(6990)] >>)
        @@ (MARRIED_JOINT :>
          << [limit |-> Num(20000), rate |-> Rate(3000)],
             [limit |-> Num(100000), rate |-> Rate(5000)],
             [limit |-> Num(200000), rate |-> Rate(5500)],
             [limit |-> Num(400000), rate |-> Rate(6000)],
             [limit |-> Num(500000), rate |-> Rate(6500)],
             [limit |-> Num(1000000), rate |-> Rate(6900)],
             [limit |-> Infinity, rate |-> Rate(6990)] >>))
    @@
    "Maryland" :>
       ((SINGLE :>
          << [limit |-> Num(1000), rate |-> Rate(2000)],
             [limit |-> Num(2000), rate |-> Rate(3000)],
             [limit |-> Num(3000), rate |-> Rate(4000)],
             [limit |-> Num(100000), rate |-> Rate(4750)],
             [limit |-> Num(125000), rate |-> Rate(5000)],
             [limit |-> Num(150000), rate |-> Rate(5250)],
             [limit |-> Num(250000), rate |-> Rate(5500)],
             [limit |-> Infinity, rate |-> Rate(5750)] >>)
        @@ (MARRIED_JOINT :>
          << [limit |-> Num(1000), rate |-> Rate(2000)],
             [limit |-> Num(2000), rate |-> Rate(3000)],
             [limit |-> Num(3000), rate |-> Rate(4000)],
             [limit |-> Num(150000), rate |-> Rate(4750)],
             [limit |-> Num(175000), rate |-> Rate(5000)],
             [limit |-> Num(225000), rate |-> Rate(5250)],
             [limit |-> Num(300000), rate |-> Rate(5500)],
             [limit |-> Infinity, rate |-> Rate(5750)] >>))
    @@
    "Ohio" :>
       ((SINGLE :>
          << [limit |-> Num(26050), rate |-> Rate(0)],
             [limit |-> Num(100000), rate |-> Rate(2750)],
             [limit |-> Num(115300), rate |-> Rate(3688)],
             [limit |-> Infinity, rate |-> Rate(3750)] >>)
        @@ (MARRIED_JOINT :>
          << [limit |-> Num(26050), rate |-> Rate(0)],
             [limit |-> Num(100000), rate |-> Rate(2750)],
             [limit |-> Num(115300), rate |-> Rate(3688)],
             [limit |-> Infinity, rate |-> Rate(3750)] >>))
    @@
    "Wisconsin" :>
       ((SINGLE :>
          << [limit |-> Num(14320), rate |-> Rate(3500)],
             [limit |-> Num(28640), rate |-> Rate(4400)],
             [limit |-> Num(315310), rate |-> Rate(5300)],
             [limit |-> Infinity, rate |-> Rate(7650)] >>)
        @@ (MARRIED_JOINT :>
          << [limit |-> Num(19090), rate |-> Rate(3500)],
             [limit |-> Num(38190), rate |-> Rate(4400)],
             [limit |-> Num(420420), rate |-> Rate(5300)],
             [limit |-> Infinity, rate |-> Rate(7650)] >>))


\* FICA_CONSTANTS, PAY_PERIOD_CONSTANTS and STATE_TAX_CONSTANTS (constants.ts)

F1_EXEMPTION_CALENDAR_YEARS == 5

SS_EMPLOYEE_RATE == Rate(6200)

MEDICARE_EMPLOYEE_RATE == Rate(1450)

ADDITIONAL_MEDICARE_RATE == Rate(900)

ADDITIONAL_MEDICARE_THRESHOLD ==
    (SINGLE :> Num(200000)) @@ (MARRIED_JOINT :> Num(250000))

MONTHS_PER_YEAR == 12

BRACKET_ESTIMATE_SINGLE == Num(200000)

BRACKET_ESTIMATE_MFJ == Num(400000)

\* ------------------------------------------------------------------------
\* Utility functions (taxCalculator.ts)
\* ------------------------------------------------------------------------

\* getAnnualAmount with a monthly amount taken as the amount of the year
getAnnualAmount_NotAnnualized(amount, frequency) == amount

\* lines 12-16
getAnnualAmount(amount, frequency) ==
    IF frequency = MONTHLY THEN Times(amount, Num(MONTHS_PER_YEAR)) ELSE amount

\* getTaxYearData with the first year of the table as the fallback
getTaxYearData_FallbackTo2024(taxYear) ==
    IF taxYear \in DOMAIN TAX_DATA THEN TAX_DATA[taxYear] ELSE TAX_DATA[2024]

\* lines 21-23
getTaxYearData(taxYear) ==
    IF taxYear \in DOMAIN TAX_DATA THEN TAX_DATA[taxYear] ELSE TAX_DATA[2025]

\* ------------------------------------------------------------------------
\* FICA (Social Security + Medicare + Additional Medicare)
\* ------------------------------------------------------------------------

\* isFicaExempt with the fifth year not exempt
isFicaExempt_StrictlyLess(visaStatus, yearsInUS) ==
    visaStatus = F1 /\ yearsInUS < F1_EXEMPTION_CALENDAR_YEARS

\* line 40: F-1 students are exempt for their first 5 calendar years
isFicaExempt(visaStatus, yearsInUS) ==
    visaStatus = F1 /\ yearsInUS <= F1_EXEMPTION_CALENDAR_YEARS

\* socialSecurityTaxOn without the wage base cap
socialSecurityTaxOn_Uncapped(grossPay, ssWageBase) ==
    Times(grossPay, SS_EMPLOYEE_RATE)

\* lines 51-53: Social Security tax, capped at the wage base
socialSecurityTaxOn(grossPay, ssWageBase) ==
    LET ssTaxableWages == MathMin(grossPay, ssWageBase)
    IN  Times(ssTaxableWages, SS_EMPLOYEE_RATE)

\* additionalMedicareTaxOn with the rate applied to the whole pay once the
\* pay is over the threshold
additionalMedicareTaxOn_WholePay(grossPay, filingStatus) ==
    LET additionalMedicareThreshold == ADDITIONAL_MEDICARE_THRESHOLD[filingStatus]
    IN  IF Gt(grossPay, additionalMedicareThreshold)
        THEN Times(grossPay, ADDITIONAL_MEDICARE_RATE)
        ELSE Zero

\* lines 58-65: Additional Medicare tax, on the wages over the threshold
additionalMedicareTaxOn(grossPay, filingStatus) ==
    LET additionalMedicareThreshold == ADDITIONAL_MEDICARE_THRESHOLD[filingStatus]
    IN  IF Gt(grossPay, additionalMedicareThreshold)
        THEN LET wagesOverThreshold == Minus(grossPay, additionalMedicareThreshold)
             IN  Times(wagesOverThreshold, ADDITIONAL_MEDICARE_RATE)
        ELSE Zero

\* lines 32-79
calculateFICA(grossPay, visaStatus, yearsInUS, filingStatus, ssWageBase) ==
    IF isFicaExempt(visaStatus, yearsInUS)
    THEN [socialSecurityTax |-> Zero,
          medicareTax |-> Zero,
          additionalMedicareTax |-> Zero,
          totalFICA |-> Zero,
          isExempt |-> TRUE,
          exemptionReason |-> "F-1 students are exempt from Social Security & Medicare taxes for their first "
                              \o ToString(F1_EXEMPTION_CALENDAR_YEARS)
                              \o " calendar years of physical presence in the US."]
    ELSE LET socialSecurityTax == socialSecurityTaxOn(grossPay, ssWageBase)
             medicareTax == Times(grossPay, MEDICARE_EMPLOYEE_RATE)
             additionalMedicareTax == additionalMedicareTaxOn(grossPay, filingStatus)
             totalFICA == Plus(Plus(socialSecurityTax, medicareTax), additionalMedicareTax)
         IN  [socialSecurityTax |-> socialSecurityTax,
              medicareTax |-> medicareTax,
              additionalMedicareTax |-> additionalMedicareTax,
              totalFICA |-> totalFICA,
              isExempt |-> FALSE,
              exemptionReason |->
                  IF visaStatus = F1
                  THEN "You have exceeded the " \o ToString(F1_EXEMPTION_CALENDAR_YEARS)
                       \o "-year FICA exemption period for F-1 students."
                  ELSE undefined]

\* ------------------------------------------------------------------------
\* calculateTax: one invocation, as a record of its locals.  pc is the
\* stage the invocation is at.
\* ------------------------------------------------------------------------

\* call: the invocation that is running or has just returned; returned: the
\* profiles and results of the invocations that returned before it; peer: a
\* second invocation, suspended while call runs; app: the React state of App
VARIABLES call, returned, peer, app

vars == <<call, returned, peer, app>>

\* no invocation
Idle == [pc |-> "idle"]

\* App is not mounted
Unmounted == [mounted |-> FALSE]

\* the locals of an invocation that has not started yet
NewCall(input) ==
    [pc |-> "start",
     input |-> input,
     messages |-> <<>>,
     grossPay |-> Zero,
     preTaxDeductions |-> Zero,
     ficaBreakdown |-> undefined,
     ficaTax |-> Zero,
     adjustedGrossIncome |-> Zero,
     standardDeduction |-> Zero,
     taxableIncome |-> Zero,
     federalTaxLiability |-> Zero,
     remainingIncome |-> Zero,
     previousLimit |-> Zero,
     marginalTaxRate |-> Zero,
     federalBreakdown |-> <<>>,
     fedIndex |-> 1,
     stateTax |-> Zero,
     stateRateUsed |-> Zero,
     remainingStateIncome |-> Zero,
     previousStateLimit |-> Zero,
     stateIndex |-> 1,
     result |-> undefined]

taxYearData(c) == getTaxYearData(c.input.taxYear)

standardDeductionAmount(c) == taxYearData(c).STANDARD_DEDUCTION[c.input.filingStatus]

brackets(c) == taxYearData(c).BRACKETS[c.input.filingStatus]

\* Annualize with the messages array shared by all invocations
Annualize_MessagesKept(c) ==
    [c EXCEPT !.pc = "fica",
              !.grossPay = getAnnualAmount(c.input.grossPay, c.input.payFrequency),
              !.preTaxDeductions = getAnnualAmount(c.input.preTaxDeductions, c.input.payFrequency)]

\* lines 86-95: the messages array, annualize income
Annualize(c) ==
    [c EXCEPT !.pc = "fica",
              !.messages = <<>>,
              !.grossPay = getAnnualAmount(c.input.grossPay, c.input.payFrequency),
              !.preTaxDeductions = getAnnualAmount(c.input.preTaxDeductions, c.input.payFrequency)]

\* the FICA messages; the dollar figures inside the text are left out
FicaMessages(ficaBreakdown) ==
    IF ficaBreakdown.isExempt
    THEN << "FICA Exempt: " \o ficaBreakdown.exemptionReason >>
    ELSE << "FICA Tax: SS + Medicare"
              \o (IF Gt(ficaBreakdown.additionalMedicareTax, Zero)
                  THEN " + Additional Medicare" ELSE "") >>
         \o (IF ficaBreakdown.exemptionReason # undefined
             THEN << ficaBreakdown.exemptionReason >> ELSE <<>>)

\* lines 97-121
Fica(c) ==
    LET ficaBreakdown == calculateFICA(c.grossPay, c.input.visaStatus, c.input.yearsInUS,
                                       c.input.filingStatus, taxYearData(c).SS_WAGE_BASE)
    IN  [c EXCEPT !.pc = "income",
                  !.ficaBreakdown = ficaBreakdown,
                  !.ficaTax = ficaBreakdown.totalFICA,
                  !.messages = c.messages \o FicaMessages(ficaBreakdown)]

\* StandardDeduction with the deduction given to every F-1 student
StandardDeduction_AnyCountry(visaStatus, country, amount) ==
    IF visaStatus = H1B THEN amount
    ELSE IF visaStatus = F1 THEN amount
    ELSE Zero

\* lines 126-137
StandardDeduction(visaStatus, country, amount) ==
    IF visaStatus = H1B THEN amount
    ELSE IF visaStatus = F1 /\ country = INDIA THEN amount
    ELSE Zero

StandardDeductionMessage(visaStatus, country, taxYear) ==
    IF visaStatus = H1B
    THEN "Standard Deduction (" \o ToString(taxYear) \o "): H-1B holders are typically Resident Aliens."
    ELSE IF visaStatus = F1 /\ country = INDIA
    THEN "Treaty Benefit: The US-India Tax Treaty (Article 21) allows Standard Deduction."
    ELSE "No Standard Deduction: Most Non-Resident Aliens (F-1) cannot claim this."

\* adjustedGrossIncomeOf without the clamp at zero
adjustedGrossIncomeOf_Unclamped(grossPay, preTaxDeductions) ==
    Minus(grossPay, preTaxDeductions)

\* line 124
adjustedGrossIncomeOf(grossPay, preTaxDeductions) ==
    MathMax(Zero, Minus(grossPay, preTaxDeductions))

\* line 140
taxableIncomeOf(adjustedGrossIncome, standardDeduction) ==
    MathMax(Zero, Minus(adjustedGrossIncome, standardDeduction))

\* lines 123-147: AGI, standard deduction, taxable income and the initial
\* values of the federal bracket walk
Income(c) ==
    LET adjustedGrossIncome == adjustedGrossIncomeOf(c.grossPay, c.preTaxDeductions)
        standardDeduction == StandardDeduction(c.input.visaStatus, c.input.country,
                                               standardDeductionAmount(c))
        taxableIncome == taxableIncomeOf(adjustedGrossIncome, standardDeduction)
    IN  [c EXCEPT !.pc = "federal",
                  !.adjustedGrossIncome = adjustedGrossIncome,
                  !.standardDeduction = standardDeduction,
                  !.messages = Append(c.messages,
                                      StandardDeductionMessage(c.input.visaStatus, c.input.country,
                                                               c.input.taxYear)),
                  !.taxableIncome = taxableIncome,
                  !.federalTaxLiability = Zero,
                  !.remainingIncome = taxableIncome,
                  !.previousLimit = Zero,
                  !.marginalTaxRate = Zero,
                  !.federalBreakdown = <<>>,
                  !.fedIndex = 1]

\* FederalLoopContinues without the break of lines 150-152
FederalLoopContinues_NoBreak(c) ==
    c.fedIndex <= Len(brackets(c))

\* FederalLoopContinues with the break taken only below zero
FederalLoopContinues_BreakBelowZero(c) ==
    c.fedIndex <= Len(brackets(c)) /\ ~Lt(c.remainingIncome, Zero)

\* the federal loop goes on: a bracket is left and line 150 does not break
FederalLoopContinues(c) ==
    c.fedIndex <= Len(brackets(c)) /\ ~Le(c.remainingIncome, Zero)

\* FederalBracketBody with the amount in the bracket not capped at the
\* remaining income
FederalBracketBody_Uncapped(w, bracket) ==
    LET bracketWidth == Minus(bracket.limit, w.previousLimit)
        taxableInThisBracket == bracketWidth
        taxForThisBracket == Times(taxableInThisBracket, bracket.rate)
    IN  [federalTaxLiability |-> Plus(w.federalTaxLiability, taxForThisBracket),
         federalBreakdown |-> Append(w.federalBreakdown,
                                     [rate |-> bracket.rate,
                                      min |-> w.previousLimit,
                                      max |-> bracket.limit,
                                      amountInBracket |-> taxableInThisBracket,
                                      taxAmount |-> taxForThisBracket]),
         remainingIncome |-> Minus(w.remainingIncome, taxableInThisBracket),
         previousLimit |-> bracket.limit,
         marginalTaxRate |-> IF Gt(taxableInThisBracket, Zero)
                             THEN bracket.rate ELSE w.marginalTaxRate]

\* FederalBracketBody with the bracket's width taken from zero, not from the
\* previous limit
FederalBracketBody_WidthFromZero(w, bracket) ==
    LET bracketWidth == bracket.limit
        taxableInThisBracket == MathMin(w.remainingIncome, bracketWidth)
        taxForThisBracket == Times(taxableInThisBracket, bracket.rate)
    IN  [federalTaxLiability |-> Plus(w.federalTaxLiability, taxForThisBracket),
         federalBreakdown |-> Append(w.federalBreakdown,
                                     [rate |-> bracket.rate,
                                      min |-> w.previousLimit,
                                      max |-> bracket.limit,
                                      amountInBracket |-> taxableInThisBracket,
                                      taxAmount |-> taxForThisBracket]),
         remainingIncome |-> Minus(w.remainingIncome, taxableInThisBracket),
         previousLimit |-> bracket.limit,
         marginalTaxRate |-> IF Gt(taxableInThisBracket, Zero)
                             THEN bracket.rate ELSE w.marginalTaxRate]

\* lines 154-173: the body of the federal loop, for one bracket, on the
\* loop's variables w
FederalBracketBody(w, bracket) ==
    LET bracketWidth == Minus(bracket.limit, w.previousLimit)
        taxableInThisBracket == MathMin(w.remainingIncome, bracketWidth)
        taxForThisBracket == Times(taxableInThisBracket, bracket.rate)
    IN  [federalTaxLiability |-> Plus(w.federalTaxLiability, taxForThisBracket),
         federalBreakdown |-> Append(w.federalBreakdown,
                                     [rate |-> bracket.rate,
                                      min |-> w.previousLimit,
                                      max |-> bracket.limit,
                                      amountInBracket |-> taxableInThisBracket,
                                      taxAmount |-> taxForThisBracket]),
         remainingIncome |-> Minus(w.remainingIncome, taxableInThisBracket),
         previousLimit |-> bracket.limit,
         marginalTaxRate |-> IF Gt(taxableInThisBracket, Zero)
                             THEN bracket.rate ELSE w.marginalTaxRate]

\* one iteration of the federal loop of an invocation
FederalBracket(c) ==
    LET w == FederalBracketBody(c, brackets(c)[c.fedIndex])
    IN  [c EXCEPT !.federalTaxLiability = w.federalTaxLiability,
                  !.federalBreakdown = w.federalBreakdown,
                  !.remainingIncome = w.remainingIncome,
                  !.previousLimit = w.previousLimit,
                  !.marginalTaxRate = w.marginalTaxRate,
                  !.fedIndex = c.fedIndex + 1]

\* line 177: STATES_LIST.find(s => s.name === input.state); the index of the
\* first entry of that name, 0 when there is none
stateIndexOf(name) ==
    LET hits == {k \in 1..Len(STATES_LIST) : STATES_LIST[k].name = name}
    IN  IF hits = {} THEN 0 ELSE CHOOSE k \in hits : \A m \in hits : k <= m

\* line 181: if (stateInfo)
stateInfoFound(c) == stateIndexOf(c.input.state) # 0

stateInfo(c) == STATES_LIST[stateIndexOf(c.input.state)]

\* line 196: if (specificBrackets)
specificBracketsFound(c) == stateInfo(c).name \in DOMAIN STATE_GRADUATED_BRACKETS

\* line 194: STATE_GRADUATED_BRACKETS[stateInfo.name]?.[input.filingStatus]
specificBrackets(c) == STATE_GRADUATED_BRACKETS[stateInfo(c).name][c.input.filingStatus]

\* (rate * 100).toFixed(2) is left out of the flat-rate message
StateMessage(name, method) ==
    IF method = "none" THEN name \o " has no state income tax."
    ELSE IF method = "flat" THEN name \o " has a flat income tax rate."
    ELSE IF method = "brackets" THEN name \o " tax calculated using graduated brackets."
    ELSE name \o " tax estimated using effective rate interpolation."

\* StateUnknown with stateTax and stateRateUsed not set to 0 before the lookup
StateUnknown_Unset(c) ==
    [c EXCEPT !.pc = "totals"]

\* lines 176-180 with an unmapped state: nothing is assigned, no message
StateUnknown(c) ==
    [c EXCEPT !.pc = "totals", !.stateTax = Zero, !.stateRateUsed = Zero]

\* lines 182-185
StateNone(c) ==
    [c EXCEPT !.pc = "totals", !.stateTax = Zero, !.stateRateUsed = Zero,
              !.messages = Append(c.messages, StateMessage(stateInfo(c).name, "none"))]

\* StateFlat with the rate applied to the taxable income
StateFlat_OnTaxableIncome(c) ==
    LET stateRateUsed == stateInfo(c).minRate
    IN  [c EXCEPT !.pc = "totals",
                  !.stateRateUsed = stateRateUsed,
                  !.stateTax = Times(c.taxableIncome, stateRateUsed),
                  !.messages = Append(c.messages, StateMessage(stateInfo(c).name, "flat"))]

\* lines 186-190
StateFlat(c) ==
    LET stateRateUsed == stateInfo(c).minRate
    IN  [c EXCEPT !.pc = "totals",
                  !.stateRateUsed = stateRateUsed,
                  !.stateTax = Times(c.adjustedGrossIncome, stateRateUsed),
                  !.messages = Append(c.messages, StateMessage(stateInfo(c).name, "flat"))]

\* StateBracketsStart with the walk started on the taxable income
StateBracketsStart_OnTaxableIncome(c) ==
    [c EXCEPT !.pc = "stateLoop",
              !.remainingStateIncome = c.taxableIncome,
              !.previousStateLimit = Zero,
              !.stateTax = Zero,
              !.stateRateUsed = Zero,
              !.stateIndex = 1]

\* lines 196-199: the initial values of the state bracket walk
StateBracketsStart(c) ==
    [c EXCEPT !.pc = "stateLoop",
              !.remainingStateIncome = c.adjustedGrossIncome,
              !.previousStateLimit = Zero,
              !.stateTax = Zero,
              !.stateRateUsed = Zero,
              !.stateIndex = 1]

StateLoopContinues(c) ==
    c.stateIndex <= Len(specificBrackets(c)) /\ ~Le(c.remainingStateIncome, Zero)

\* StateBracket with the amount in the bracket not capped at the remaining
\* income
StateBracket_Uncapped(c) ==
    LET bracket == specificBrackets(c)[c.stateIndex]
        bracketWidth == Minus(bracket.limit, c.previousStateLimit)
        taxableInThisBracket == bracketWidth
    IN  [c EXCEPT !.stateTax = Plus(c.stateTax, Times(taxableInThisBracket, bracket.rate)),
                  !.remainingStateIncome = Minus(c.remainingStateIncome, taxableInThisBracket),
                  !.previousStateLimit = bracket.limit,
                  !.stateIndex = c.stateIndex + 1]

\* lines 204-209: the body of the state loop, for one bracket
StateBracket(c) ==
    LET bracket == specificBrackets(c)[c.stateIndex]
        bracketWidth == Minus(bracket.limit, c.previousStateLimit)
        taxableInThisBracket == MathMin(c.remainingStateIncome, bracketWidth)
    IN  [c EXCEPT !.stateTax = Plus(c.stateTax, Times(taxableInThisBracket, bracket.rate)),
                  !.remainingStateIncome = Minus(c.remainingStateIncome, taxableInThisBracket),
                  !.previousStateLimit = bracket.limit,
                  !.stateIndex = c.stateIndex + 1]

\* lines 211-213
StateBracketsEnd(c) ==
    [c EXCEPT !.pc = "totals",
              !.stateRateUsed = IF Gt(c.adjustedGrossIncome, Zero)
                                THEN Over(c.stateTax, c.adjustedGrossIncome) ELSE Zero,
              !.messages = Append(c.messages, StateMessage(stateInfo(c).name, "brackets"))]

\* StateInterpolation with the income factor not capped at 1
StateInterpolation_Uncapped(c) ==
    LET maxBracketEstimate == IF c.input.filingStatus = MARRIED_JOINT
                              THEN BRACKET_ESTIMATE_MFJ ELSE BRACKET_ESTIMATE_SINGLE
        incomeFactor == Over(c.adjustedGrossIncome, maxBracketEstimate)
        stateRateUsed == Plus(stateInfo(c).minRate,
                              Times(Minus(stateInfo(c).maxRate, stateInfo(c).minRate), incomeFactor))
    IN  [c EXCEPT !.pc = "totals",
                  !.stateRateUsed = stateRateUsed,
                  !.stateTax = Times(c.adjustedGrossIncome, stateRateUsed),
                  !.messages = Append(c.messages, StateMessage(stateInfo(c).name, "interpolation"))]

\* lines 215-223
StateInterpolation(c) ==
    LET maxBracketEstimate == IF c.input.filingStatus = MARRIED_JOINT
                              THEN BRACKET_ESTIMATE_MFJ ELSE BRACKET_ESTIMATE_SINGLE
        incomeFactor == MathMin(Over(c.adjustedGrossIncome, maxBracketEstimate), Num(1))
        stateRateUsed == Plus(stateInfo(c).minRate,
                              Times(Minus(stateInfo(c).maxRate, stateInfo(c).minRate), incomeFactor))
    IN  [c EXCEPT !.pc = "totals",
                  !.stateRateUsed = stateRateUsed,
                  !.stateTax = Times(c.adjustedGrossIncome, stateRateUsed),
                  !.messages = Append(c.messages, StateMessage(stateInfo(c).name, "interpolation"))]

\* totalTaxLiabilityOf with the FICA tax left out of the total
totalTaxLiabilityOf_WithoutFica(c) ==
    Plus(c.federalTaxLiability, c.stateTax)

\* line 229
totalTaxLiabilityOf(c) ==
    Plus(Plus(c.federalTaxLiability, c.stateTax), c.ficaTax)

\* takeHomePayOf with the pre-tax deductions taken off twice
takeHomePayOf_DeductionsTwice(c) ==
    Minus(Minus(Minus(c.grossPay, totalTaxLiabilityOf(c)), c.preTaxDeductions),
          c.preTaxDeductions)

\* line 230
takeHomePayOf(c) ==
    Minus(Minus(c.grossPay, totalTaxLiabilityOf(c)), c.preTaxDeductions)

\* refundOrOweOf with the withholding set against the whole liability
refundOrOweOf_AgainstTotalLiability(c) ==
    Minus(getAnnualAmount(c.input.federalTaxPaid, c.input.payFrequency), totalTaxLiabilityOf(c))

\* lines 233-234
refundOrOweOf(c) ==
    LET totalPaid == getAnnualAmount(c.input.federalTaxPaid, c.input.payFrequency)
    IN  Minus(totalPaid, c.federalTaxLiability)

\* line 249
effectiveTaxRateOf(c) ==
    IF Gt(c.grossPay, Zero) THEN Over(totalTaxLiabilityOf(c), c.grossPay) ELSE Zero

\* lines 228-253
Totals(c) ==
    [c EXCEPT !.pc = "done",
              !.result = [grossPay |-> c.grossPay,
                          adjustedGrossIncome |-> c.adjustedGrossIncome,
                          standardDeduction |-> c.standardDeduction,
                          taxableIncome |-> c.taxableIncome,
                          federalTaxLiability |-> c.federalTaxLiability,
                          federalBreakdown |-> c.federalBreakdown,
                          ficaTax |-> c.ficaTax,
                          ficaBreakdown |-> c.ficaBreakdown,
                          stateTax |-> c.stateTax,
                          totalTaxLiability |-> totalTaxLiabilityOf(c),
                          takeHomePay |-> takeHomePayOf(c),
                          refundOrOwe |-> refundOrOweOf(c),
                          effectiveTaxRate |-> effectiveTaxRateOf(c),
                          marginalTaxRate |-> c.marginalTaxRate,
                          messages |-> c.messages,
                          stateRateUsed |-> c.stateRateUsed]]

\* ------------------------------------------------------------------------
\* The profiles an invocation is given: the form data of App.tsx, which has
\* the FICA and state tax withheld besides the fields of UserInput
\* ------------------------------------------------------------------------

MaxYearsInUS == 6

MaxGrossSteps == 10

VisaStatuses == {F1, H1B}

Countries == {INDIA, CHINA, COUNTRY_OTHER}

FilingStatuses == {SINGLE, MARRIED_JOINT}

PayFrequencies == {YEARLY, MONTHLY}

\* 2023 is a year the tax table does not have
TaxYears == {2023, 2024, 2025}

\* a state of each category, with and without a bracket table, and a name
\* that is not in the state table
States == {"Texas", "Arizona", "California", "Ohio", "Hawaii", "Atlantis"}

AllStates == {STATES_LIST[k].name : k \in 1..Len(STATES_LIST)} \cup {"Atlantis"}

\* a grid, a negative amount, and the amounts at and next to the Social
\* Security wage bases and the Additional Medicare thresholds
GrossPays ==
    {Num(k * 50000) : k \in 0..MaxGrossSteps}
    \cup {Num(-1000), Num(8000), Num(40000), Num(168600), Num(176100), Num(200001), Num(250001),
          Num(1000000)}

LowGrossPays == {Num(0), Num(8000), Num(40000)}

Deductions == {Num(0), Num(500), Num(60000)}

DefaultProfile ==
    [visaStatus |-> F1, country |-> INDIA, yearsInUS |-> 1, state |-> "Texas",
     payFrequency |-> YEARLY, grossPay |-> Num(60000), preTaxDeductions |-> Num(0),
     federalTaxPaid |-> Num(5000), ficaWithheld |-> Num(4590), stateTaxWithheld |-> Num(1000),
     filingStatus |-> SINGLE, taxYear |-> 2025]

\* who pays FICA, on what pay
FicaProfiles ==
    {[DefaultProfile EXCEPT !.visaStatus = v, !.yearsInUS = y, !.filingStatus = fs,
                            !.taxYear = ty, !.grossPay = g] :
        v \in VisaStatuses, y \in 0..MaxYearsInUS, fs \in FilingStatuses,
        ty \in TaxYears, g \in GrossPays}

\* who gets the standard deduction, with monthly and yearly amounts
DeductionProfiles ==
    {[DefaultProfile EXCEPT !.visaStatus = v, !.country = co, !.filingStatus = fs,
                            !.taxYear = ty, !.payFrequency = pf, !.grossPay = g,
                            !.preTaxDeductions = d] :
        v \in VisaStatuses, co \in Countries, fs \in FilingStatuses, ty \in TaxYears,
        pf \in PayFrequencies, g \in LowGrossPays, d \in Deductions}

\* the state tax of each kind of state, on every pay
StateProfiles ==
    {[DefaultProfile EXCEPT !.visaStatus = v, !.state = s, !.filingStatus = fs,
                            !.grossPay = g, !.preTaxDeductions = d] :
        v \in VisaStatuses, s \in States, fs \in FilingStatuses,
        g \in GrossPays, d \in Deductions}

\* every state of the table
AllStateProfiles ==
    {[DefaultProfile EXCEPT !.visaStatus = H1B, !.state = s, !.filingStatus = fs,
                            !.grossPay = g] :
        s \in AllStates, fs \in FilingStatuses, g \in {Num(0), Num(100000), Num(500000)}}

\* a pay at and next to each bounded limit of the federal tables, of a
\* taxpayer without standard deduction
BoundaryProfiles ==
    {[DefaultProfile EXCEPT !.country = CHINA, !.filingStatus = fs, !.taxYear = ty,
                            !.grossPay = Plus(TAX_DATA[ty].BRACKETS[fs][k].limit, Num(e))] :
        fs \in FilingStatuses, ty \in DOMAIN TAX_DATA,
        k \in 1..2, e \in {-1, 0, 1}}

\* pre-tax deductions of the whole pay, or all of it but a part
FullDeductionProfiles ==
    {[DefaultProfile EXCEPT !.visaStatus = v, !.state = s, !.grossPay = g,
                            !.preTaxDeductions = Minus(g, MathMin(g, left))] :
        v \in VisaStatuses, s \in {"Texas", "California"},
        g \in {Num(0), Num(40000), Num(100000)},
        left \in {Num(0), Num(1000), Num(10000)}}

Profiles ==
    FicaProfiles \cup DeductionProfiles \cup StateProfiles \cup AllStateProfiles
    \cup BoundaryProfiles \cup FullDeductionProfiles

\* ------------------------------------------------------------------------
\* The state machine
\* ------------------------------------------------------------------------

Init ==
    /\ call \in {NewCall(p) : p \in Profiles}
    /\ returned = {}
    /\ peer = Idle
    /\ app = Unmounted

\* the federal loop is over: line 177 onwards
FederalLoopOver == call.pc = "federal" /\ ~FederalLoopContinues(call)

\* the control flow of calculateTax: the step the invocation is at
\* line 86: the invocation starts
AnnualizeDue ==
    call.pc = "start"

\* line 97
FicaDue ==
    call.pc = "fica"

\* line 124
IncomeDue ==
    call.pc = "income"

\* lines 149-152: another bracket, and income left
FederalBracketDue ==
    call.pc = "federal" /\ FederalLoopContinues(call)

\* line 181: no entry of the state
StateUnknownDue ==
    FederalLoopOver /\ ~stateInfoFound(call)

\* line 182
StateNoneDue ==
    FederalLoopOver /\ stateInfoFound(call) /\ stateInfo(call).category = "none"

\* line 186
StateFlatDue ==
    FederalLoopOver /\ stateInfoFound(call) /\ stateInfo(call).category = "flat"

\* lines 191-196
StateBracketsStartDue ==
    /\ FederalLoopOver /\ stateInfoFound(call)
    /\ stateInfo(call).category \notin {"none", "flat"}
    /\ specificBracketsFound(call)

\* lines 191-196, 214
StateInterpolationDue ==
    /\ FederalLoopOver /\ stateInfoFound(call)
    /\ stateInfo(call).category \notin {"none", "flat"}
    /\ ~specificBracketsFound(call)

\* lines 201-202
StateBracketDue ==
    call.pc = "stateLoop" /\ StateLoopContinues(call)

\* lines 201-202, 211
StateBracketsEndDue ==
    call.pc = "stateLoop" /\ ~StateLoopContinues(call)

\* line 228
TotalsDue ==
    call.pc = "totals"

DoAnnualize ==
    /\ AnnualizeDue
    /\ call' = Annualize(call)
    /\ UNCHANGED <<returned, peer, app>>

DoFica ==
    /\ FicaDue
    /\ call' = Fica(call)
    /\ UNCHANGED <<returned, peer, app>>

DoIncome ==
    /\ IncomeDue
    /\ call' = Income(call)
    /\ UNCHANGED <<returned, peer, app>>

DoFederalBracket ==
    /\ FederalBracketDue
    /\ call' = FederalBracket(call)
    /\ UNCHANGED <<returned, peer, app>>

DoStateUnknown ==
    /\ StateUnknownDue
    /\ call' = StateUnknown(call)
    /\ UNCHANGED <<returned, peer, app>>

DoStateNone ==
    /\ StateNoneDue
    /\ call' = StateNone(call)
    /\ UNCHANGED <<returned, peer, app>>

DoStateFlat ==
    /\ StateFlatDue
    /\ call' = StateFlat(call)
    /\ UNCHANGED <<returned, peer, app>>

DoStateBracketsStart ==
    /\ StateBracketsStartDue
    /\ call' = StateBracketsStart(call)
    /\ UNCHANGED <<returned, peer, app>>

DoStateInterpolation ==
    /\ StateInterpolationDue
    /\ call' = StateInterpolation(call)
    /\ UNCHANGED <<returned, peer, app>>

DoStateBracket ==
    /\ StateBracketDue
    /\ call' = StateBracket(call)
    /\ UNCHANGED <<returned, peer, app>>

DoStateBracketsEnd ==
    /\ StateBracketsEndDue
    /\ call' = StateBracketsEnd(call)
    /\ UNCHANGED <<returned, peer, app>>

DoTotals ==
    /\ TotalsDue
    /\ call' = Totals(call)
    /\ UNCHANGED <<returned, peer, app>>

Next ==
    \/ DoAnnualize
    \/ DoFica
    \/ DoIncome
    \/ DoFederalBracket
    \/ DoStateUnknown
    \/ DoStateNone
    \/ DoStateFlat
    \/ DoStateBracketsStart
    \/ DoStateInterpolation
    \/ DoStateBracket
    \/ DoStateBracketsEnd
    \/ DoTotals

Spec == Init /\ [][Next]_vars

\* ------------------------------------------------------------------------
\* A session: the form data changes and the results are calculated again
\* (App.tsx, line 75)
\* ------------------------------------------------------------------------

MaxReturned == 2

SessionBase ==
    [visaStatus |-> H1B, country |-> INDIA, yearsInUS |-> 1, state |-> "Texas",
     payFrequency |-> YEARLY, grossPay |-> Num(120000), preTaxDeductions |-> Num(12000),
     federalTaxPaid |-> Num(12000), ficaWithheld |-> Num(9180), stateTaxWithheld |-> Num(3000),
     filingStatus |-> SINGLE, taxYear |-> 2025]

\* the base profile and the profiles that differ from it in the state, in who
\* pays FICA, in the tax year, or in the pay
\* frequency (the same amounts paid by the month, and the monthly amounts
\* paid by the year)
SessionProfiles ==
    {SessionBase}
    \cup {[SessionBase EXCEPT !.state = s] : s \in {"Atlantis", "California", "Hawaii", "Arizona"}}
    \cup {[SessionBase EXCEPT !.visaStatus = F1, !.yearsInUS = y] : y \in {1, 6}}
    \cup {[SessionBase EXCEPT !.visaStatus = F1, !.state = "California"],
          [SessionBase EXCEPT !.visaStatus = F1, !.state = "California",
                              !.payFrequency = MONTHLY, !.grossPay = Num(10000),
                              !.preTaxDeductions = Num(1000), !.federalTaxPaid = Num(1000)],
          [SessionBase EXCEPT !.visaStatus = F1, !.state = "California", !.taxYear = 2023],
          [SessionBase EXCEPT !.visaStatus = F1, !.yearsInUS = 6, !.state = "Atlantis"]}
    \cup {[SessionBase EXCEPT !.taxYear = ty] : ty \in {2023, 2024, 2026}}
    \cup {[SessionBase EXCEPT !.payFrequency = MONTHLY, !.grossPay = Num(10000),
                              !.preTaxDeductions = Num(1000), !.federalTaxPaid = Num(1000)],
          [SessionBase EXCEPT !.grossPay = Num(10000),
                              !.preTaxDeductions = Num(1000), !.federalTaxPaid = Num(1000)]}

\* calculateTax is entered again: nothing is assumed of the locals, which
\* keep what the last invocation left until the code assigns them
Recalculate(c, input) == [c EXCEPT !.pc = "start", !.input = input]

SessionInit ==
    /\ call \in {NewCall(p) : p \in SessionProfiles}
    /\ returned = {}
    /\ peer = Idle
    /\ app = Unmounted

\* the memoised calculation runs again when a field of the form data changed
DoRecalculate ==
    /\ call.pc = "done"
    /\ \E p \in SessionProfiles \ {call.input} :
          /\ returned' = returned \cup {[input |-> call.input, result |-> call.result]}
          /\ Cardinality(returned') <= MaxReturned
          /\ call' = Recalculate(call, p)
    /\ UNCHANGED <<peer, app>>

SessionNext == Next \/ DoRecalculate

Session == SessionInit /\ [][SessionNext]_vars

\* ------------------------------------------------------------------------
\* Two invocations whose steps interleave.  Each profile is first calculated
\* alone; then both are calculated again, the running one being suspended
\* and the other resumed at any step.
\* ------------------------------------------------------------------------

\* a profile of each kind of state, an exempt student and monthly pay
ConcurrentProfiles ==
    {SessionBase}
    \cup {[SessionBase EXCEPT !.state = s] : s \in {"Atlantis", "California", "Hawaii", "Arizona"}}
    \cup {[SessionBase EXCEPT !.visaStatus = F1],
          [SessionBase EXCEPT !.payFrequency = MONTHLY, !.grossPay = Num(10000),
                              !.preTaxDeductions = Num(1000), !.federalTaxPaid = Num(1000)]}

\* Resume with the messages array shared by the invocations
Resume_SharedMessages(suspended, running) ==
    [suspended EXCEPT !.messages = running.messages]

\* what a suspended invocation finds when it is resumed: its own locals, all
\* of them being declared inside calculateTax
Resume(suspended, running) == suspended

ConcurrentInit ==
    /\ \E p \in ConcurrentProfiles, q \in ConcurrentProfiles :
          /\ call = NewCall(p)
          /\ peer = [pc |-> "waiting", input |-> q]
    /\ returned = {}
    /\ app = Unmounted

\* the first profile was calculated alone: the second is
DoAloneReturn ==
    /\ call.pc = "done"
    /\ peer.pc = "waiting"
    /\ returned' = returned \cup {[input |-> call.input, result |-> call.result]}
    /\ call' = NewCall(peer.input)
    /\ peer' = [pc |-> "ranAlone", input |-> call.input]
    /\ UNCHANGED app

\* both profiles were calculated alone: two new invocations are started
DoStartConcurrently ==
    /\ call.pc = "done"
    /\ peer.pc = "ranAlone"
    /\ returned' = returned \cup {[input |-> call.input, result |-> call.result]}
    /\ call' = NewCall(peer.input)
    /\ peer' = NewCall(call.input)
    /\ UNCHANGED app

\* both invocations are under way
Concurrently == peer.pc \notin {"idle", "waiting", "ranAlone"}

\* the running invocation is suspended and the other one, which has not
\* returned yet, goes on
DoSwitch ==
    /\ Concurrently
    /\ peer.pc # "done"
    /\ call' = Resume(peer, call)
    /\ peer' = call
    /\ UNCHANGED <<returned, app>>

ConcurrentNext == Next \/ DoAloneReturn \/ DoStartConcurrently \/ DoSwitch

Concurrent == ConcurrentInit /\ [][ConcurrentNext]_vars

\* ------------------------------------------------------------------------
\* Properties
\* ------------------------------------------------------------------------

\* the federal loop of the invocation has ended (a break, or no bracket left)
FederalWalkOver(c) ==
    \/ c.pc \in {"stateLoop", "totals", "done"}
    \/ c.pc = "federal" /\ ~FederalLoopContinues(c)

RECURSIVE SumAmountInBracket(_)
SumAmountInBracket(breakdown) ==
    IF breakdown = <<>> THEN Zero
    ELSE Plus(Head(breakdown).amountInBracket, SumAmountInBracket(Tail(breakdown)))

\* C1: at every iteration of the federal bracket walk the amounts emitted so
\* far plus remainingIncome equal taxableIncome; when the walk has ended
\* remainingIncome is 0, and the amountInBracket of the federalBreakdown in
\* the result sum to the result's taxableIncome.
C1_BreakdownSumsToTaxableIncome ==
    /\ (call.pc = "federal" \/ FederalWalkOver(call)) =>
           Eq(Plus(SumAmountInBracket(call.federalBreakdown), call.remainingIncome),
              call.taxableIncome)
    /\ FederalWalkOver(call) =>
           /\ Eq(call.remainingIncome, Zero)
           /\ Eq(SumAmountInBracket(call.federalBreakdown), call.taxableIncome)
    /\ call.pc = "done" =>
           Eq(SumAmountInBracket(call.result.federalBreakdown), call.result.taxableIncome)

\* a result whose taxable income reaches the unbounded top bracket
C1_Witness ==
    /\ call.pc = "done"
    /\ Len(call.result.federalBreakdown) = Len(brackets(call))
    /\ Gt(call.result.taxableIncome, Zero)

\* the closed-form progressive sum: the sum over the brackets i of
\* rate_i * max(0, min(T, limit_i) - limit_(i-1)), with limit_0 = 0
RECURSIVE ClosedFormFrom(_, _, _)
ClosedFormFrom(table, T, i) ==
    IF i > Len(table) THEN Zero
    ELSE LET lower == IF i = 1 THEN Zero ELSE table[i - 1].limit
         IN  Plus(Times(table[i].rate,
                        MathMax(Zero, Minus(MathMin(T, table[i].limit), lower))),
                  ClosedFormFrom(table, T, i + 1))

ClosedForm(table, T) == ClosedFormFrom(table, T, 1)

\* C2: the federalTaxLiability the bracket walk computes equals the
\* closed-form progressive sum of the bracket table on the taxable income.
C2_WalkEqualsClosedForm ==
    /\ FederalWalkOver(call) =>
           Eq(call.federalTaxLiability, ClosedForm(brackets(call), call.taxableIncome))
    /\ call.pc = "done" =>
           Eq(call.result.federalTaxLiability,
              ClosedForm(brackets(call), call.result.taxableIncome))

\* a result whose taxable income lies in the third bracket or above
C2_Witness ==
    /\ call.pc = "done"
    /\ Len(call.result.federalBreakdown) >= 3
    /\ Gt(call.result.federalTaxLiability, Zero)

\* calculateFICA has returned
FicaDone(c) == c.pc \in {"income", "federal", "stateLoop", "totals", "done"}

\* AGI, standard deduction and taxable income are set
IncomeDone(c) == c.pc \in {"federal", "stateLoop", "totals", "done"}

\* the state tax is settled
StateDone(c) == c.pc \in {"totals", "done"}

\* all three taxes and the total are 0, isExempt is true, a reason is given
FullyExempt(fb) ==
    /\ Eq(fb.socialSecurityTax, Zero)
    /\ Eq(fb.medicareTax, Zero)
    /\ Eq(fb.additionalMedicareTax, Zero)
    /\ Eq(fb.totalFICA, Zero)
    /\ fb.isExempt
    /\ fb.exemptionReason # undefined

\* the subject of the invocation pays FICA: H-1B, or F-1 past the fifth year
NonExemptSubject(c) ==
    c.input.visaStatus = H1B \/ (c.input.visaStatus = F1 /\ c.input.yearsInUS >= 6)

\* C3: calculateFICA returns a fully exempt result exactly when visaStatus is
\* F-1 and yearsInUS <= 5: year 5 is exempt, year 6 is not, H-1B never is.
C3_ExemptExactlyF1WithinFiveYears ==
    FicaDone(call) =>
        LET fb == call.ficaBreakdown
            student == call.input.visaStatus = "F-1 Student"
            years == call.input.yearsInUS
        IN  /\ FullyExempt(fb) <=> (student /\ years <= 5)
            /\ fb.isExempt <=> (student /\ years <= 5)
            /\ (student /\ years = 5) => FullyExempt(fb)
            /\ (student /\ years = 6) => ~fb.isExempt
            /\ call.input.visaStatus = "H-1B Worker" => ~fb.isExempt
            /\ call.pc = "done" => call.result.ficaBreakdown = fb

\* an F-1 student in the fifth year, with pay, is exempt
C3_Witness ==
    /\ call.pc = "done"
    /\ call.input.visaStatus = F1
    /\ call.input.yearsInUS = 5
    /\ Gt(call.result.grossPay, Zero)
    /\ FullyExempt(call.result.ficaBreakdown)

\* the Social Security wage base of the year the tax year resolves to
ResolvedWageBase(taxYear) == IF taxYear = 2024 THEN Num(168600) ELSE Num(176100)

\* C4: for a non-exempt subject socialSecurityTax = min(gross, ssWageBase) *
\* 6.2% (never more than ssWageBase * 6.2%), medicareTax = gross * 1.45%,
\* isExempt = false and totalFICA is the sum of the three taxes.
C4_NonExemptFica ==
    (FicaDone(call) /\ NonExemptSubject(call)) =>
        LET fb == call.ficaBreakdown
            gross == call.grossPay
            ssWageBase == ResolvedWageBase(call.input.taxYear)
        IN  /\ Eq(fb.socialSecurityTax, Times(MathMin(gross, ssWageBase), Frac(62, 1000)))
            /\ Le(fb.socialSecurityTax, Times(ssWageBase, Frac(62, 1000)))
            /\ Eq(fb.medicareTax, Times(gross, Frac(145, 10000)))
            /\ fb.isExempt = FALSE
            /\ Eq(fb.totalFICA,
                  Plus(Plus(fb.socialSecurityTax, fb.medicareTax), fb.additionalMedicareTax))
            /\ Eq(call.ficaTax, fb.totalFICA)

\* a worker whose pay is over the wage base pays Social Security on the base
C4_Witness ==
    /\ call.pc = "done"
    /\ call.input.visaStatus = H1B
    /\ Gt(call.result.grossPay, ResolvedWageBase(call.input.taxYear))
    /\ Eq(call.result.ficaBreakdown.socialSecurityTax,
          Times(ResolvedWageBase(call.input.taxYear), Frac(62, 1000)))

\* C5: for a non-exempt subject additionalMedicareTax is 0 for every gross
\* up to and including the threshold of the filing status, and 0.9% of the
\* excess X for gross = threshold + X, X > 0.
C5_AdditionalMedicareOnExcess ==
    (FicaDone(call) /\ NonExemptSubject(call)) =>
        LET fb == call.ficaBreakdown
            gross == call.grossPay
            threshold == ADDITIONAL_MEDICARE_THRESHOLD[call.input.filingStatus]
        IN  /\ Le(gross, threshold) => Eq(fb.additionalMedicareTax, Zero)
            /\ Gt(gross, threshold) =>
                  Eq(fb.additionalMedicareTax, Times(Minus(gross, threshold), Frac(9, 1000)))

\* a non-exempt subject one dollar over the threshold owes 0.9% of a dollar
C5_Witness ==
    /\ call.pc = "done"
    /\ NonExemptSubject(call)
    /\ Eq(call.result.grossPay,
          Plus(ADDITIONAL_MEDICARE_THRESHOLD[call.input.filingStatus], Num(1)))
    /\ Eq(call.result.ficaBreakdown.additionalMedicareTax, Frac(9, 1000))

\* C6: for every annual gross pay, negative values included, each of
\* socialSecurityTax, medicareTax, additionalMedicareTax and totalFICA of
\* the breakdown is >= 0.
C6_FicaNeverNegative ==
    FicaDone(call) =>
        /\ Le(Zero, call.ficaBreakdown.socialSecurityTax)
        /\ Le(Zero, call.ficaBreakdown.medicareTax)
        /\ Le(Zero, call.ficaBreakdown.additionalMedicareTax)
        /\ Le(Zero, call.ficaBreakdown.totalFICA)

\* the standard deduction of the year the tax year resolves to
ResolvedDeduction(taxYear, filingStatus) ==
    IF taxYear = 2024
    THEN (IF filingStatus = SINGLE THEN Num(14600) ELSE Num(29200))
    ELSE (IF filingStatus = SINGLE THEN Num(15000) ELSE Num(30000))

\* C7: standardDeduction is the resolved year's deduction of the filing
\* status for H-1B (any country) and for F-1 from India, and 0 for every
\* other F-1 case.
C7_StandardDeduction ==
    IncomeDone(call) =>
        LET full == ResolvedDeduction(call.input.taxYear, call.input.filingStatus)
            expected == IF call.input.visaStatus = "H-1B Worker" THEN full
                        ELSE IF call.input.country = "India" THEN full
                        ELSE Zero
        IN  /\ Eq(call.standardDeduction, expected)
            /\ call.pc = "done" => Eq(call.result.standardDeduction, expected)

\* an F-1 student from China, with income, gets no deduction
C7_Witness ==
    /\ call.pc = "done"
    /\ call.input.visaStatus = F1
    /\ call.input.country = CHINA
    /\ Gt(call.result.adjustedGrossIncome, Zero)
    /\ Eq(call.result.standardDeduction, Zero)
    /\ Eq(call.result.taxableIncome, call.result.adjustedGrossIncome)

\* C8: adjustedGrossIncome = max(0, annualGross - annualPreTaxDeductions) and
\* taxableIncome = max(0, adjustedGrossIncome - standardDeduction); both are
\* >= 0 in every result.
C8_IncomeClamped ==
    IncomeDone(call) =>
        LET net == Minus(call.grossPay, call.preTaxDeductions)
            agi == IF Lt(net, Zero) THEN Zero ELSE net
            afterDeduction == Minus(agi, call.standardDeduction)
            taxable == IF Lt(afterDeduction, Zero) THEN Zero ELSE afterDeduction
        IN  /\ Eq(call.adjustedGrossIncome, agi)
            /\ Eq(call.taxableIncome, taxable)
            /\ Le(Zero, call.adjustedGrossIncome)
            /\ Le(Zero, call.taxableIncome)
            /\ call.pc = "done" =>
                  /\ Eq(call.result.adjustedGrossIncome, agi)
                  /\ Eq(call.result.taxableIncome, taxable)

\* deductions over the gross pay: AGI and taxable income are 0
C8_Witness ==
    /\ call.pc = "done"
    /\ Gt(call.preTaxDeductions, call.grossPay)
    /\ Gt(call.grossPay, Zero)
    /\ Eq(call.result.adjustedGrossIncome, Zero)
    /\ Eq(call.result.taxableIncome, Zero)

\* the entry of the state table for a name
StateEntries(name) == {k \in 1..Len(STATES_LIST) : STATES_LIST[k].name = name}

\* C9: in a state of category 'none' stateTax = 0 and stateRateUsed = 0; in a
\* state of category 'flat' stateRateUsed = minRate and stateTax =
\* adjustedGrossIncome * minRate, whatever the standard deduction is.
C9_NoneAndFlatStates ==
    StateDone(call) =>
        \A k \in StateEntries(call.input.state) :
            /\ STATES_LIST[k].category = "none" =>
                  /\ Eq(call.stateTax, Zero)
                  /\ Eq(call.stateRateUsed, Zero)
            /\ STATES_LIST[k].category = "flat" =>
                  /\ Eq(call.stateRateUsed, STATES_LIST[k].minRate)
                  /\ Eq(call.stateTax, Times(call.adjustedGrossIncome, STATES_LIST[k].minRate))
            /\ (call.pc = "done" /\ STATES_LIST[k].category \in {"none", "flat"}) =>
                  /\ Eq(call.result.stateTax, call.stateTax)
                  /\ Eq(call.result.stateRateUsed, call.stateRateUsed)

\* a flat-tax state, with a standard deduction that makes the taxable income
\* smaller than the AGI
C9_Witness ==
    /\ call.pc = "done"
    /\ \E k \in StateEntries(call.input.state) : STATES_LIST[k].category = "flat"
    /\ Gt(call.result.standardDeduction, Zero)
    /\ Gt(call.result.adjustedGrossIncome, call.result.taxableIncome)
    /\ Gt(call.result.stateTax, Zero)

\* the federal bracket-walk algorithm (lines 143-174) run on a table and a
\* base income
RECURSIVE FederalWalkFrom(_, _, _)
FederalWalkFrom(w, table, i) ==
    IF i <= Len(table) /\ ~Le(w.remainingIncome, Zero)
    THEN FederalWalkFrom(FederalBracketBody(w, table[i]), table, i + 1)
    ELSE w

FederalWalk(table, base) ==
    FederalWalkFrom([federalTaxLiability |-> Zero,
                     remainingIncome |-> base,
                     previousLimit |-> Zero,
                     marginalTaxRate |-> Zero,
                     federalBreakdown |-> <<>>],
                    table, 1)

\* the graduated states that have a bracket table
ExplicitBracketState(name) ==
    /\ \E k \in StateEntries(name) : STATES_LIST[k].category = "graduated"
    /\ name \in DOMAIN STATE_GRADUATED_BRACKETS

\* C10: in a graduated state with an explicit table, stateTax is the
\* liability the federal bracket walk yields on that table with the AGI as
\* base; stateRateUsed = stateTax / AGI when AGI > 0 and 0 when AGI = 0; the
\* interpolation fallback is not used.
C10_ExplicitStateBrackets ==
    (StateDone(call) /\ ExplicitBracketState(call.input.state)) =>
        LET table == STATE_GRADUATED_BRACKETS[call.input.state][call.input.filingStatus]
            agi == call.adjustedGrossIncome
        IN  /\ Eq(call.stateTax, FederalWalk(table, agi).federalTaxLiability)
            /\ Gt(agi, Zero) => Eq(call.stateRateUsed, Over(call.stateTax, agi))
            /\ Eq(agi, Zero) => Eq(call.stateRateUsed, Zero)
            /\ \A m \in 1..Len(call.messages) :
                  call.messages[m] # call.input.state \o " tax estimated using effective rate interpolation."
            /\ \E m \in 1..Len(call.messages) :
                  call.messages[m] = call.input.state \o " tax calculated using graduated brackets."
            /\ call.pc = "done" =>
                  /\ Eq(call.result.stateTax, call.stateTax)
                  /\ Eq(call.result.stateRateUsed, call.stateRateUsed)

\* California, Single, AGI 500000, with a standard deduction
C10_Witness ==
    /\ call.pc = "done"
    /\ call.input.state = "California"
    /\ call.input.filingStatus = SINGLE
    /\ Eq(call.result.adjustedGrossIncome, Num(500000))
    /\ Gt(call.result.standardDeduction, Zero)
    /\ Gt(call.result.stateTax, Zero)

\* the graduated states that have no bracket table
InterpolatedState(name) ==
    /\ \E k \in StateEntries(name) : STATES_LIST[k].category = "graduated"
    /\ name \notin DOMAIN STATE_GRADUATED_BRACKETS

\* C11: in a graduated state with no explicit table stateRateUsed = minRate +
\* (maxRate - minRate) * min(AGI / ceiling, 1), the ceiling being 200000 for
\* Single and 400000 for Married Filing Jointly, and stateTax = AGI *
\* stateRateUsed; for AGI >= ceiling the rate is maxRate, for AGI = 0 it is
\* minRate and stateTax is 0.
C11_Interpolation ==
    (StateDone(call) /\ InterpolatedState(call.input.state)) =>
        \A k \in StateEntries(call.input.state) :
            LET agi == call.adjustedGrossIncome
                ceiling == IF call.input.filingStatus = "Single"
                           THEN Num(200000) ELSE Num(400000)
                ratio == Over(agi, ceiling)
                factor == IF Lt(ratio, Num(1)) THEN ratio ELSE Num(1)
                minRate == STATES_LIST[k].minRate
                maxRate == STATES_LIST[k].maxRate
                rate == Plus(minRate, Times(Minus(maxRate, minRate), factor))
            IN  /\ Eq(call.stateRateUsed, rate)
                /\ Eq(call.stateTax, Times(agi, call.stateRateUsed))
                /\ Le(ceiling, agi) => Eq(call.stateRateUsed, maxRate)
                /\ Eq(agi, Zero) =>
                      /\ Eq(call.stateRateUsed, minRate)
                      /\ Eq(call.stateTax, Zero)
                /\ call.pc = "done" =>
                      /\ Eq(call.result.stateRateUsed, call.stateRateUsed)
                      /\ Eq(call.result.stateTax, call.stateTax)

\* Hawaii, filing jointly, with an AGI over the ceiling of 400000: the rate
\* is the state's top rate
C11_Witness ==
    /\ call.pc = "done"
    /\ call.input.state = "Hawaii"
    /\ call.input.filingStatus = MARRIED_JOINT
    /\ Gt(call.result.adjustedGrossIncome, Num(400000))
    /\ \E k \in StateEntries("Hawaii") :
          /\ Lt(STATES_LIST[k].minRate, STATES_LIST[k].maxRate)
          /\ Eq(call.result.stateRateUsed, STATES_LIST[k].maxRate)
    /\ Gt(call.result.stateTax, Zero)

\* an amount of the profile over the year: 12 times a monthly amount
AnnualAmount(c, amount) ==
    IF c.input.payFrequency = "Monthly" THEN Times(amount, Num(12)) ELSE amount

\* C12: in every result totalTaxLiability = federalTaxLiability + stateTax +
\* ficaTax and takeHomePay = grossPay - totalTaxLiability - annual pre-tax
\* deductions, ficaTax being ficaBreakdown.totalFICA and grossPay the
\* annualized gross pay.
C12_Totals ==
    call.pc = "done" =>
        LET r == call.result
        IN  /\ Eq(r.totalTaxLiability, Plus(Plus(r.federalTaxLiability, r.stateTax), r.ficaTax))
            /\ Eq(r.takeHomePay,
                  Minus(Minus(r.grossPay, r.totalTaxLiability),
                        AnnualAmount(call, call.input.preTaxDeductions)))
            /\ Eq(r.ficaTax, r.ficaBreakdown.totalFICA)
            /\ Eq(r.grossPay, AnnualAmount(call, call.input.grossPay))

\* a result with a federal, a state and a FICA part
C12_Witness ==
    /\ call.pc = "done"
    /\ Gt(call.result.federalTaxLiability, Zero)
    /\ Gt(call.result.stateTax, Zero)
    /\ Gt(call.result.ficaTax, Zero)
    /\ Gt(call.input.preTaxDeductions, Zero)
    /\ Gt(call.result.takeHomePay, Zero)

\* C13: effectiveTaxRate = totalTaxLiability / annual gross when the annual
\* gross is not zero, and 0 when it is zero; the rate is always a defined,
\* finite number.
C13_EffectiveTaxRate ==
    call.pc = "done" =>
        LET r == call.result
        IN  /\ ~Eq(r.grossPay, Zero) =>
                  Eq(r.effectiveTaxRate, Over(r.totalTaxLiability, r.grossPay))
            /\ Eq(r.grossPay, Zero) => Eq(r.effectiveTaxRate, Zero)
            /\ r.effectiveTaxRate.d # <<>>

\* the federal withholding of a profile over the year
WithheldPerYear(input) ==
    IF input.payFrequency = "Monthly" THEN Times(input.federalTaxPaid, Num(12))
    ELSE input.federalTaxPaid

\* C14: refundOrOwe = annualized federalTaxPaid - federalTaxLiability, and two
\* results of profiles with the same annualized withholding and the same
\* federal liability have the same refundOrOwe, whatever their state, their
\* FICA exemption and their FICA and state tax.
C14_RefundIndependentOfFicaAndState ==
    call.pc = "done" =>
        LET r == call.result
        IN  /\ Eq(r.refundOrOwe, Minus(WithheldPerYear(call.input), r.federalTaxLiability))
            /\ \A h \in returned :
                  (/\ Eq(WithheldPerYear(h.input), WithheldPerYear(call.input))
                   /\ Eq(h.result.federalTaxLiability, r.federalTaxLiability))
                  => Eq(h.result.refundOrOwe, r.refundOrOwe)

\* two results with the same withholding and federal liability, one of an
\* exempt student in a state with an income tax, one of a worker in a state
\* without, and a third with another federal liability
C14_Witness ==
    /\ call.pc = "done"
    /\ \E h \in returned :
          /\ Eq(WithheldPerYear(h.input), WithheldPerYear(call.input))
          /\ Eq(h.result.federalTaxLiability, call.result.federalTaxLiability)
          /\ Gt(call.result.federalTaxLiability, Zero)
          /\ h.input.state # call.input.state
          /\ ~Eq(h.result.stateTax, call.result.stateTax)
          /\ h.result.ficaBreakdown.isExempt # call.result.ficaBreakdown.isExempt
          /\ ~Eq(h.result.ficaTax, call.result.ficaTax)
    /\ \E h \in returned :
          ~Eq(h.result.federalTaxLiability, call.result.federalTaxLiability)

\* C15: the result carries a FICA refund/owe = annualized FICA withheld -
\* ficaTax and a state refund/owe = annualized state tax withheld - stateTax,
\* and the ficaRefundOrOwe, stateRefundOrOwe and totalRefundOrOwe the UI
\* reads from the result are defined numbers.
C15_FicaAndStateRefund ==
    call.pc = "done" =>
        LET r == call.result
        IN  /\ {"ficaRefundOrOwe", "stateRefundOrOwe", "totalRefundOrOwe"} \subseteq DOMAIN r
            /\ Eq(r.ficaRefundOrOwe,
                  Minus(AnnualAmount(call, call.input.ficaWithheld), r.ficaTax))
            /\ Eq(r.stateRefundOrOwe,
                  Minus(AnnualAmount(call, call.input.stateTaxWithheld), r.stateTax))
            /\ r.totalRefundOrOwe.d # <<>>

\* two FICA breakdowns with the same numbers
SameFicaNumbers(a, b) ==
    /\ Eq(a.socialSecurityTax, b.socialSecurityTax)
    /\ Eq(a.medicareTax, b.medicareTax)
    /\ Eq(a.additionalMedicareTax, b.additionalMedicareTax)
    /\ Eq(a.totalFICA, b.totalFICA)
    /\ a.isExempt = b.isExempt

\* two bracket breakdowns with the same numbers
SameBreakdownNumbers(a, b) ==
    /\ Len(a) = Len(b)
    /\ \A i \in 1..Len(a) :
          /\ Eq(a[i].rate, b[i].rate)
          /\ Eq(a[i].amountInBracket, b[i].amountInBracket)
          /\ Eq(a[i].taxAmount, b[i].taxAmount)
          /\ Eq(a[i].min, b[i].min)
          /\ Cmp(a[i].max, b[i].max) = 0

\* two results that agree in every field other than the messages
SameNumbers(a, b) ==
    /\ Eq(a.grossPay, b.grossPay)
    /\ Eq(a.adjustedGrossIncome, b.adjustedGrossIncome)
    /\ Eq(a.standardDeduction, b.standardDeduction)
    /\ Eq(a.taxableIncome, b.taxableIncome)
    /\ Eq(a.federalTaxLiability, b.federalTaxLiability)
    /\ SameBreakdownNumbers(a.federalBreakdown, b.federalBreakdown)
    /\ Eq(a.ficaTax, b.ficaTax)
    /\ SameFicaNumbers(a.ficaBreakdown, b.ficaBreakdown)
    /\ Eq(a.stateTax, b.stateTax)
    /\ Eq(a.totalTaxLiability, b.totalTaxLiability)
    /\ Eq(a.takeHomePay, b.takeHomePay)
    /\ Eq(a.refundOrOwe, b.refundOrOwe)
    /\ Eq(a.effectiveTaxRate, b.effectiveTaxRate)
    /\ Eq(a.marginalTaxRate, b.marginalTaxRate)
    /\ Eq(a.stateRateUsed, b.stateRateUsed)

\* the tax year of the profile is not a key of the tax table
YearFallsBack(input) == input.taxYear \notin {2024, 2025}

\* the profile with the tax year replaced by 2025
In2025(input) == [input EXCEPT !.taxYear = 2025]

\* C16: for a tax year that is neither 2024 nor 2025 calculateTax does not
\* fail (the year's data it works on are those of 2025, never undefined) and
\* returns the numbers it returns for the same profile with taxYear = 2025.
C16_UnknownYearAs2025 ==
    /\ YearFallsBack(call.input) => taxYearData(call) = TAX_DATA[2025]
    /\ call.pc = "done" =>
          \A h \in returned :
              (/\ YearFallsBack(h.input) \/ h.input.taxYear = 2025
               /\ YearFallsBack(call.input) \/ call.input.taxYear = 2025
               /\ In2025(h.input) = In2025(call.input))
              => SameNumbers(h.result, call.result)

\* a result for 2023 after the result of the same profile for 2025, and after
\* another for 2024 whose numbers differ
C16_Witness ==
    /\ call.pc = "done"
    /\ call.input.taxYear = 2023
    /\ Gt(call.result.federalTaxLiability, Zero)
    /\ \E h \in returned :
          /\ h.input = In2025(call.input)
          /\ SameNumbers(h.result, call.result)
    /\ \E h \in returned :
          /\ h.input = [call.input EXCEPT !.taxYear = 2024]
          /\ ~SameNumbers(h.result, call.result)

\* the name is a state of the table that has no income tax
NoIncomeTaxState(name) ==
    \E k \in StateEntries(name) : STATES_LIST[k].category = "none"

\* C17: for a state name that is not in the state table the invocation goes
\* on to its result with stateTax = 0 and stateRateUsed = 0, and the numbers
\* of the result are those of the same profile in a state with no income tax.
C17_UnknownStateAsNoTax ==
    /\ (StateDone(call) /\ StateEntries(call.input.state) = {}) =>
          /\ Eq(call.stateTax, Zero)
          /\ Eq(call.stateRateUsed, Zero)
    /\ call.pc = "done" =>
          /\ StateEntries(call.input.state) = {} =>
                /\ Eq(call.result.stateTax, Zero)
                /\ Eq(call.result.stateRateUsed, Zero)
          /\ \A h \in returned :
                (/\ \/ StateEntries(call.input.state) = {} /\ NoIncomeTaxState(h.input.state)
                    \/ StateEntries(h.input.state) = {} /\ NoIncomeTaxState(call.input.state)
                 /\ [h.input EXCEPT !.state = call.input.state] = call.input)
                => SameNumbers(h.result, call.result)

\* a result for Atlantis after the result of the same profile in Texas and
\* the result of an invocation that left a state tax behind
C17_Witness ==
    /\ call.pc = "done"
    /\ call.input.state = "Atlantis"
    /\ Gt(call.result.federalTaxLiability, Zero)
    /\ Gt(call.result.ficaTax, Zero)
    /\ \E h \in returned :
          /\ h.input = [call.input EXCEPT !.state = "Texas"]
          /\ SameNumbers(h.result, call.result)
    /\ \E h \in returned : Gt(h.result.stateTax, Zero)

\* the invocation fell back, and h is the result of the same profile without
\* the fallback: with the tax year 2025, or in a state with no income tax
WithoutFallback(h, c) ==
    \/ /\ YearFallsBack(c.input)
       /\ h.input = In2025(c.input)
    \/ /\ StateEntries(c.input.state) = {}
       /\ NoIncomeTaxState(h.input.state)
       /\ h.input = [c.input EXCEPT !.state = h.input.state]

\* C18: whenever the tax year or the state fell back, the messages of the
\* result have an entry that reveals it: an entry that the result of the same
\* profile without the fallback does not have.
C18_FallbackRevealed ==
    call.pc = "done" =>
        \A h \in returned :
            WithoutFallback(h, call) =>
                \E i \in 1..Len(call.result.messages) :
                    \A j \in 1..Len(h.result.messages) :
                        h.result.messages[j] # call.result.messages[i]

\* C19: two invocations with an identical profile return identical results in
\* every field, the bracket breakdown, the FICA breakdown and the ordered
\* messages included, whatever was calculated in between.
C19_Deterministic ==
    /\ call.pc = "done" =>
          \A h \in returned : h.input = call.input => h.result = call.result
    /\ \A h1, h2 \in returned : h1.input = h2.input => h1.result = h2.result

\* the result of a profile that was calculated before, with the calculation
\* of another profile, which left other values in every local, in between
C19_Witness ==
    /\ call.pc = "done"
    /\ Len(call.result.messages) >= 3
    /\ Len(call.result.federalBreakdown) >= 3
    /\ \E h \in returned :
          /\ h.input = call.input
          /\ h.result = call.result
    /\ \E h \in returned :
          /\ h.input # call.input
          /\ h.result.messages # call.result.messages
          /\ ~SameNumbers(h.result, call.result)

\* m is a Monthly profile with the amounts (g, d, w) and y the otherwise
\* identical Yearly profile with the amounts (12g, 12d, 12w)
MonthlyAndYearly(m, y) ==
    /\ m.payFrequency = "Monthly"
    /\ y.payFrequency = "Yearly"
    /\ Eq(y.grossPay, Times(Num(12), m.grossPay))
    /\ Eq(y.preTaxDeductions, Times(Num(12), m.preTaxDeductions))
    /\ Eq(y.federalTaxPaid, Times(Num(12), m.federalTaxPaid))
    /\ m.visaStatus = y.visaStatus
    /\ m.country = y.country
    /\ m.yearsInUS = y.yearsInUS
    /\ m.state = y.state
    /\ m.filingStatus = y.filingStatus
    /\ m.taxYear = y.taxYear

\* the factor of the pay frequency
FrequencyFactor(input) == IF input.payFrequency = "Monthly" THEN Num(12) ELSE Num(1)

\* C20: gross pay, pre-tax deductions and federal withholding are multiplied
\* by 12 for Monthly and by 1 for Yearly, and a Monthly profile with the
\* amounts (g, d, w) has the numbers of the otherwise identical Yearly
\* profile with the amounts (12g, 12d, 12w).
C20_Annualization ==
    call.pc = "done" =>
        LET r == call.result
            factor == FrequencyFactor(call.input)
        IN  /\ Eq(r.grossPay, Times(factor, call.input.grossPay))
            /\ Eq(call.preTaxDeductions, Times(factor, call.input.preTaxDeductions))
            /\ Eq(Plus(r.refundOrOwe, r.federalTaxLiability),
                  Times(factor, call.input.federalTaxPaid))
            /\ \A h \in returned :
                  (MonthlyAndYearly(h.input, call.input) \/ MonthlyAndYearly(call.input, h.input))
                  => SameNumbers(h.result, call.result)

\* a Monthly result after the result of the Yearly profile with 12 times the
\* amounts; the result of a Yearly profile of another pay is not the same
C20_Witness ==
    /\ call.pc = "done"
    /\ call.input.payFrequency = MONTHLY
    /\ Gt(call.input.grossPay, Zero)
    /\ Gt(call.input.preTaxDeductions, Zero)
    /\ Gt(call.input.federalTaxPaid, Zero)
    /\ Gt(call.result.federalTaxLiability, Zero)
    /\ \E h \in returned :
          /\ MonthlyAndYearly(call.input, h.input)
          /\ SameNumbers(h.result, call.result)
    /\ \E h \in returned :
          /\ h.input = [call.input EXCEPT !.payFrequency = YEARLY]
          /\ ~SameNumbers(h.result, call.result)

\* the invocation has returned the result its profile has when run alone
ReturnedAsAlone(c) ==
    c.pc = "done" =>
        \E h \in returned : h.input = c.input /\ h.result = c.result

AllTables ==
    {TAX_DATA[y].BRACKETS[fs] : y \in DOMAIN TAX_DATA, fs \in FilingStatuses}
    \cup {STATE_GRADUATED_BRACKETS[s][fs] : s \in DOMAIN STATE_GRADUATED_BRACKETS,
                                            fs \in FilingStatuses}

\* the number of rows of the longest table
MostRows ==
    CHOOSE n \in {Len(t) : t \in AllTables} : \A t \in AllTables : Len(t) <= n

\* a bound on the steps an invocation has left: the stages ahead, each
\* counted as a full walk, and the rows the walk under way has left
StepsLeft(c) ==
    LET Stage == MostRows + 1
    IN  IF c.pc = "start" THEN 5 * Stage
        ELSE IF c.pc = "fica" THEN 4 * Stage
        ELSE IF c.pc = "income" THEN 3 * Stage
        ELSE IF c.pc = "federal" THEN 2 * Stage + (Len(brackets(c)) + 1 - c.fedIndex)
        ELSE IF c.pc = "stateLoop" THEN Stage + (Len(specificBrackets(c)) + 1 - c.stateIndex)
        ELSE IF c.pc = "totals" THEN 1
        ELSE 0

\* the state bracket walk of the invocation has ended
StateWalkOver(c) ==
    /\ ExplicitBracketState(c.input.state)
    /\ \/ c.pc \in {"totals", "done"}
       \/ c.pc = "stateLoop" /\ ~StateLoopContinues(c)

\* the iterations of the two walks so far are no more than the rows of their
\* tables, and a walk that has ended has no income left
WalksBounded ==
    /\ (call.pc = "federal" \/ FederalWalkOver(call)) =>
          /\ call.fedIndex - 1 <= Len(brackets(call))
          /\ Len(call.federalBreakdown) <= Len(brackets(call))
    /\ FederalWalkOver(call) => Eq(call.remainingIncome, Zero)
    /\ (call.pc = "stateLoop") =>
          call.stateIndex - 1 <= Len(specificBrackets(call))
    /\ StateWalkOver(call) =>
          /\ call.stateIndex - 1 <= Len(STATE_GRADUATED_BRACKETS[call.input.state][call.input.filingStatus])
          /\ Eq(call.remainingStateIncome, Zero)

\* the invocation has a step to take: each step's operator is defined on
\* every state, so the step that is due can be taken
StepDue ==
    \/ AnnualizeDue \/ FicaDue \/ IncomeDue \/ FederalBracketDue
    \/ StateUnknownDue \/ StateNoneDue \/ StateFlatDue
    \/ StateBracketsStartDue \/ StateInterpolationDue
    \/ StateBracketDue \/ StateBracketsEndDue \/ TotalsDue

\* a value with the fields of the object calculateTax returns
IsResult(r) ==
    DOMAIN r = {"grossPay", "messages", "ficaBreakdown", "ficaTax",
                "adjustedGrossIncome", "standardDeduction", "taxableIncome",
                "federalTaxLiability", "marginalTaxRate", "federalBreakdown",
                "stateTax", "stateRateUsed", "totalTaxLiability", "takeHomePay",
                "refundOrOwe", "effectiveTaxRate"}

\* C22: every invocation ends with a result, for negative, zero and large
\* amounts: an invocation that has not returned has a next step, every step
\* lowers the bound on the steps left, which is never negative, and the
\* invocation that has none left has its result.  The federal and the state
\* bracket walk each make at most as many iterations as the table has rows,
\* and the remaining income is 0 when a walk ends.
C22_Terminates ==
    /\ [](/\ call.pc # "done" => StepDue
          /\ StepsLeft(call) >= 0
          /\ StepsLeft(call) = 0 => (call.pc = "done" /\ IsResult(call.result))
          /\ WalksBounded)
    /\ [][StepsLeft(call') < StepsLeft(call)]_vars

\* a result after walks that went through every row of the federal and of
\* the state table
C22_Witness ==
    /\ call.pc = "done"
    /\ ExplicitBracketState(call.input.state)
    /\ call.fedIndex - 1 = Len(brackets(call))
    /\ call.stateIndex - 1 = Len(specificBrackets(call))
    /\ Eq(call.remainingIncome, Zero)
    /\ Eq(call.remainingStateIncome, Zero)

\* the lower bound of row k of a bracket table
LowerLimit(table, k) == IF k = 1 THEN Zero ELSE table[k - 1].limit

\* the rows of the table the income reaches into
OccupiedRows(table, income) ==
    {k \in 1..Len(table) : Lt(LowerLimit(table, k), income)}

\* C23: when the federal walk has ended, the breakdown has one entry per
\* occupied bracket and no other: entry k is row k of the table, from the
\* previous row's limit to its own (ascending order), every entry has
\* amountInBracket > 0, there is an entry exactly for the rows whose lower
\* bound is below the taxable income, and a taxable income of 0 gives a
\* federal liability of 0, an empty breakdown and a marginal rate of 0.
C23_OneEntryPerOccupiedBracket ==
    FederalWalkOver(call) =>
        LET table == brackets(call)
            breakdown == call.federalBreakdown
        IN  /\ Len(breakdown) <= Len(table)
            /\ \A k \in 1..Len(breakdown) :
                  /\ k <= Len(table)
                  /\ breakdown[k].rate = table[k].rate
                  /\ breakdown[k].max = table[k].limit
                  /\ breakdown[k].min = LowerLimit(table, k)
                  /\ Lt(breakdown[k].min, breakdown[k].max)
                  /\ Gt(breakdown[k].amountInBracket, Zero)
            /\ 1..Len(breakdown) = OccupiedRows(table, call.taxableIncome)
            /\ Eq(call.taxableIncome, Zero) =>
                  /\ Eq(call.federalTaxLiability, Zero)
                  /\ breakdown = <<>>
                  /\ Eq(call.marginalTaxRate, Zero)

\* a walk that stopped early, with brackets above the occupied ones left out
C23_Witness ==
    /\ call.pc = "done"
    /\ Len(call.result.federalBreakdown) >= 2
    /\ Len(call.result.federalBreakdown) < Len(brackets(call))

\* a result for a taxable income of 0
C23_WitnessZero ==
    /\ call.pc = "done"
    /\ Eq(call.result.taxableIncome, Zero)
    /\ call.result.federalBreakdown = <<>>

\* the row of the table whose range (previous limit, limit] has the income
RowOf(table, income) ==
    CHOOSE k \in 1..Len(table) :
        Lt(LowerLimit(table, k), income) /\ Le(income, table[k].limit)

\* C24: for a taxable income > 0, when the federal walk has ended, the
\* marginal rate is the rate of the last entry of the breakdown, which is the
\* rate of the bracket whose range (previous limit, limit] has the taxable
\* income: an income equal to a bracket's limit has that bracket's rate, not
\* the next one's.
C24_MarginalRate ==
    (FederalWalkOver(call) /\ Gt(call.taxableIncome, Zero)) =>
        LET table == brackets(call)
            breakdown == call.federalBreakdown
        IN  /\ breakdown # <<>>
            /\ call.marginalTaxRate = breakdown[Len(breakdown)].rate
            /\ call.marginalTaxRate = table[RowOf(table, call.taxableIncome)].rate
            /\ call.pc = "done" => call.result.marginalTaxRate = call.marginalTaxRate

\* a result for a taxable income that is the limit of a bracket with another
\* one above it
C24_Witness ==
    /\ call.pc = "done"
    /\ \E k \in 1..(Len(brackets(call)) - 1) :
          /\ Eq(call.result.taxableIncome, brackets(call)[k].limit)
          /\ call.result.marginalTaxRate = brackets(call)[k].rate
          /\ call.result.marginalTaxRate # brackets(call)[k + 1].rate

\* a limit no amount reaches
Unbounded(x) == ~x.neg /\ x.n # <<>> /\ x.d = <<>>

\* limits strictly increasing from a first limit above 0 to an unbounded last
WellFormedTable(table) ==
    /\ table # <<>>
    /\ \A k \in 1..Len(table) : Lt(LowerLimit(table, k), table[k].limit)
    /\ \A k \in 1..(Len(table) - 1) : ~Unbounded(table[k].limit)
    /\ Unbounded(table[Len(table)].limit)

\* C25: every bracket table of the reference data (the federal table of each
\* year and filing status, the table of each explicit state and filing
\* status) has strictly increasing limits, a first limit > 0 and an unbounded
\* final limit, so the width of every bracket a walk uses is > 0.
C25_TablesWellFormed ==
    /\ \A table \in AllTables : WellFormedTable(table)
    /\ (call.pc = "federal" /\ FederalLoopContinues(call)) =>
          Gt(Minus(brackets(call)[call.fedIndex].limit, call.previousLimit), Zero)
    /\ (call.pc = "stateLoop" /\ StateLoopContinues(call)) =>
          Gt(Minus(specificBrackets(call)[call.stateIndex].limit, call.previousStateLimit), Zero)

\* a state walk about to use the last, unbounded row of its table
C25_Witness ==
    /\ call.pc = "stateLoop"
    /\ StateLoopContinues(call)
    /\ call.stateIndex = Len(specificBrackets(call))
    /\ call.stateIndex > 1
    /\ Unbounded(specificBrackets(call)[call.stateIndex].limit)

\* the rate lies in the range of the state's entry of the state table
WithinStateRange(c) ==
    /\ Le(stateInfo(c).minRate, c.result.stateRateUsed)
    /\ Le(c.result.stateRateUsed, stateInfo(c).maxRate)

\* C26: for every state of the state table and every AGI >= 0, the
\* stateRateUsed of the result lies between the state's minRate and maxRate,
\* on the flat, the explicit-bracket and the interpolation path alike.
C26_RateWithinRange ==
    (/\ call.pc = "done"
     /\ stateInfoFound(call)
     /\ ~Lt(call.result.adjustedGrossIncome, Zero)) => WithinStateRange(call)

\* the same for an AGI > 0
C26_RateWithinRangeAboveZero ==
    (/\ call.pc = "done"
     /\ stateInfoFound(call)
     /\ Gt(call.result.adjustedGrossIncome, Zero)) => WithinStateRange(call)

\* a result for a profile of non-negative amounts whose pre-tax deductions
\* are not above the gross pay (both of the same pay frequency)
DeductionsWithinPay(c) ==
    /\ c.pc = "done"
    /\ ~Lt(c.input.grossPay, Zero)
    /\ ~Lt(c.input.preTaxDeductions, Zero)
    /\ ~Lt(c.input.federalTaxPaid, Zero)
    /\ Le(c.preTaxDeductions, c.grossPay)

\* C27 as stated: for every profile of non-negative amounts whose annual
\* pre-tax deductions do not exceed the annual gross pay, takeHomePay is >= 0
\* and <= grossPay.
C27_TakeHomeWithinPay ==
    DeductionsWithinPay(call) =>
        /\ ~Lt(call.result.takeHomePay, Zero)
        /\ Le(call.result.takeHomePay, call.result.grossPay)

\* C27, amended: for such a profile takeHomePay is <= grossPay and
\* >= -ficaTax: the federal and the state tax together never exceed the gross
\* pay less the pre-tax deductions, but the FICA tax is on the gross pay, and
\* takeHomePay is below 0 when the deductions leave less than the FICA tax.
C27_TakeHomeAmended ==
    DeductionsWithinPay(call) =>
        /\ Le(call.result.takeHomePay, call.result.grossPay)
        /\ Le(Plus(call.result.federalTaxLiability, call.result.stateTax),
              Minus(call.result.grossPay, call.preTaxDeductions))
        /\ Le(Neg(call.result.ficaTax), call.result.takeHomePay)

\* a result with the deductions within the pay and a take-home pay below 0
C27_Witness ==
    /\ DeductionsWithinPay(call)
    /\ Gt(call.result.grossPay, Zero)
    /\ Lt(call.result.takeHomePay, Zero)
    /\ Gt(call.result.ficaTax, Zero)

\* ------------------------------------------------------------------------
\* The form of App.tsx: the form data, its validation and the AI
\* verification.  calculateTax is not under way in these specifications.
\* ------------------------------------------------------------------------

\* null; the code asks of it only that it is falsy, as the empty text is
null == << >>

\* INPUT_LIMITS of constants.ts, a file that is not among the sources: the
\* minimums and the two thresholds as the messages of validateInput word them
\* ("cannot be negative", "50% of gross pay", "20+ years"), the two maximums
\* taken as assumptions
INPUT_LIMITS ==
    [GROSS_PAY_MIN |-> Num(0),
     GROSS_PAY_MAX |-> Num(10000000),
     PRE_TAX_DEDUCTIONS_MIN |-> Num(0),
     FEDERAL_TAX_WITHHELD_MIN |-> Num(0),
     TAX_WITHHELD_WARNING_PERCENT |-> Frac(1, 2),
     YEARS_IN_US_MIN |-> 0,
     YEARS_IN_US_MAX |-> 50,
     YEARS_IN_US_F1_WARNING |-> 20]

\* errors.push({ field, message, severity }) when the condition holds
PushIf(condition, field, message, severity) ==
    IF condition
    THEN << [field |-> field, message |-> message, severity |-> severity] >>
    ELSE << >>

\* lines 135-183: the errors and warnings of one field, with its new value,
\* against the form data
validateInput(field, value, currentFormData) ==
    LET annualGross ==
            getAnnualAmount(currentFormData.grossPay, currentFormData.payFrequency)
    IN  IF field = "grossPay" THEN
            PushIf(Lt(value, INPUT_LIMITS.GROSS_PAY_MIN), field,
                   "Gross pay cannot be negative", "error")
            \o PushIf(Gt(value, INPUT_LIMITS.GROSS_PAY_MAX), field,
                      "Please enter a realistic salary amount", "warning")
        ELSE IF field = "preTaxDeductions" THEN
            LET annualDeductions == getAnnualAmount(value, currentFormData.payFrequency)
            IN  PushIf(Lt(value, INPUT_LIMITS.PRE_TAX_DEDUCTIONS_MIN), field,
                       "Deductions cannot be negative", "error")
                \o PushIf(Gt(annualDeductions, annualGross) /\ Gt(annualGross, Zero), field,
                          "Pre-tax deductions exceed gross pay", "error")
        ELSE IF field = "federalTaxPaid" THEN
            LET annualTaxPaid == getAnnualAmount(value, currentFormData.payFrequency)
            IN  PushIf(Lt(value, INPUT_LIMITS.FEDERAL_TAX_WITHHELD_MIN), field,
                       "Tax withheld cannot be negative", "error")
                \o PushIf(/\ Gt(annualTaxPaid,
                                Times(annualGross, INPUT_LIMITS.TAX_WITHHELD_WARNING_PERCENT))
                          /\ Gt(annualGross, Zero), field,
                          "Tax withheld exceeds 50% of gross pay - please verify", "warning")
        ELSE IF field = "yearsInUS" THEN
            PushIf(value < INPUT_LIMITS.YEARS_IN_US_MIN, field,
                   "Years in US cannot be negative", "error")
            \o PushIf(value > INPUT_LIMITS.YEARS_IN_US_MAX, field,
                      "Please enter a realistic number of years", "warning")
            \o PushIf(/\ value > INPUT_LIMITS.YEARS_IN_US_F1_WARNING
                      /\ currentFormData.visaStatus = F1, field,
                      "After 20+ years, you may have different tax status", "warning")
        ELSE << >>

\* prev.filter(e => e.field !== field)
RECURSIVE ErrorsOfOtherFields(_, _)
ErrorsOfOtherFields(errors, field) ==
    IF errors = << >> THEN << >>
    ELSE (IF Head(errors).field # field THEN << Head(errors) >> ELSE << >>)
         \o ErrorsOfOtherFields(Tail(errors), field)

\* lines 55-67, on the state a of the component
handleInputChange(a, field, value) ==
    LET newFormData == [a.formData EXCEPT ![field] = value]
        errors == validateInput(field, value, newFormData)
    IN  [a EXCEPT !.formData = newFormData,
                  !.aiAnalysis = null,
                  !.validationErrors = ErrorsOfOtherFields(a.validationErrors, field) \o errors]

\* lines 29-53: the state of the component when it is mounted; process.env.API_KEY
\* is that of the build, the requests to the AI service that have no response
\* yet and the timeouts that have not run are those the handlers started
Mounted(envApiKey) ==
    [mounted |-> TRUE,
     formData |-> DefaultProfile,
     aiAnalysis |-> null,
     isVerifying |-> FALSE,
     validationErrors |-> << >>,
     showApiKeyModal |-> FALSE,
     userApiKey |-> << >>,
     tempApiKeyInput |-> << >>,
     apiKeyError |-> "",
     envApiKey |-> envApiKey,
     requests |-> {},
     timers |-> {}]

\* what the user puts into the fields of the form
FormChanges ==
    {<<"grossPay", g>> : g \in {Num(-1000), Num(50000), Num(100000)}}
    \cup {<<"preTaxDeductions", d>> : d \in {Num(0), Num(60000)}}
    \cup {<<"federalTaxPaid", t>> : t \in {Num(5000), Num(40000)}}
    \cup {<<"yearsInUS", y>> : y \in {1, 25}}
    \cup {<<"visaStatus", v>> : v \in VisaStatuses}
    \cup {<<"payFrequency", pf>> : pf \in PayFrequencies}

\* the onChange and onClick handlers of the fields (lines 458-735); the
\* modal lies over the form while it is shown (line 326)
DoHandleInputChange(changes) ==
    /\ app.mounted
    /\ ~app.showApiKeyModal
    /\ \E change \in changes :
          app' = handleInputChange(app, change[1], change[2])
    /\ UNCHANGED <<call, returned, peer>>

FormInit ==
    /\ call = Idle
    /\ returned = {}
    /\ peer = Idle
    /\ app = Mounted(<< >>)

FormNext == DoHandleInputChange(FormChanges)

Form == FormInit /\ [][FormNext]_vars

\* the fields validateInput has a case for
ValidatedFields == {"grossPay", "preTaxDeductions", "federalTaxPaid", "yearsInUS"}

\* the entries of a list of errors
Entries(errors) == {errors[k] : k \in 1..Len(errors)}

\* C28: after any sequence of handleInputChange calls the validation errors
\* are those validateInput yields for each field against the current form
\* data: none remains for a condition the form data no longer violate, none
\* is missing that they violate.
C28_ValidationCurrent ==
    app.mounted =>
        Entries(app.validationErrors) =
            UNION {Entries(validateInput(f, app.formData[f], app.formData)) :
                       f \in ValidatedFields}

\* ------------------------------------------------------------------------
\* The AI verification of App.tsx.  A text is the sequence of its characters.
\* ------------------------------------------------------------------------

MaxPending == 1

MaxTimers == 1

\* String.prototype.trim: the text without the blanks at its ends
RECURSIVE trimStart(_)
trimStart(text) ==
    IF text # << >> /\ Head(text) = " " THEN trimStart(Tail(text)) ELSE text

RECURSIVE trimEnd(_)
trimEnd(text) ==
    IF text # << >> /\ text[Len(text)] = " "
    THEN trimEnd(SubSeq(text, 1, Len(text) - 1)) ELSE text

trim(text) == trimEnd(trimStart(text))

\* lines 189-194, with the userApiKey of the render the function is of
getActiveApiKey(userApiKey, envApiKey) ==
    IF userApiKey # << >> THEN userApiKey
    ELSE IF envApiKey # << >> THEN envApiKey
    ELSE null

\* the state of a render that the functions made in it read: they are made
\* anew in every render and keep the values of the render they were made in
Closure(a) == [userApiKey |-> a.userApiKey, formData |-> a.formData]

\* lines 206-260: handleVerifyWithGemini up to its await, run with the
\* values of the render it was made in; the prompt of the request is built
\* from the form data of that render
handleVerifyWithGemini(a, closure) ==
    LET apiKey == getActiveApiKey(closure.userApiKey, a.envApiKey)
    IN  IF apiKey = null
        THEN [a EXCEPT !.showApiKeyModal = TRUE,
                       !.apiKeyError = "No API key found. Please enter your Gemini API key to continue."]
        ELSE [a EXCEPT !.isVerifying = TRUE,
                       !.aiAnalysis = null,
                       !.requests = a.requests \cup
                                      {[apiKey |-> apiKey, formData |-> closure.formData]}]

\* what the AI service does with a request
Outcomes == {"report", "no text", "API key error", "error"}

\* lines 196-204: the timeout runs the handleVerifyWithGemini of the render
\* in which the key was submitted
handleApiKeySubmit(a) ==
    IF trim(a.tempApiKeyInput) # << >>
    THEN [a EXCEPT !.userApiKey = trim(a.tempApiKeyInput),
                   !.showApiKeyModal = FALSE,
                   !.apiKeyError = "",
                   !.timers = a.timers \cup
                                {[closure |-> Closure(a),
                                  submitted |-> trim(a.tempApiKeyInput)]}]
    ELSE a

\* lines 295-318: handleVerifyWithGemini after its await, for a request and
\* what came of it
VerificationResumes(a, request, outcome) ==
    LET b == [a EXCEPT !.requests = a.requests \ {request}, !.isVerifying = FALSE]
    IN  IF outcome = "report" THEN [b EXCEPT !.aiAnalysis = [about |-> request.formData]]
        ELSE IF outcome = "API key error"
        THEN [b EXCEPT !.userApiKey = << >>,
                       !.apiKeyError = "API key error: API key not valid. Please enter a valid Gemini API key.",
                       !.showApiKeyModal = TRUE]
        ELSE b

\* what the user types into the field of the modal
TempApiKeyInputs == {<< >>, <<" ">>, <<" ", "k", "1", " ">>, <<"k", "2">>}

EnvApiKeys == {<< >>, <<"e", "n", "v">>}

\* the form data the user changes while a verification is under way
VerificationChanges == {<<"grossPay", g>> : g \in {Num(60000), Num(100000)}}

\* line 1030: the button, which is not rendered while isVerifying
DoVerify ==
    /\ app.mounted
    /\ ~app.isVerifying
    /\ ~app.showApiKeyModal
    /\ Cardinality(app.requests) < MaxPending
    /\ app' = handleVerifyWithGemini(app, Closure(app))
    /\ UNCHANGED <<call, returned, peer>>

\* line 369
DoTypeApiKey ==
    /\ app.mounted
    /\ app.showApiKeyModal
    /\ \E text \in TempApiKeyInputs \ {app.tempApiKeyInput} :
          app' = [app EXCEPT !.tempApiKeyInput = text]
    /\ UNCHANGED <<call, returned, peer>>

\* lines 370 and 405
DoApiKeySubmit ==
    /\ app.mounted
    /\ app.showApiKeyModal
    /\ Cardinality(app.timers) < MaxTimers
    /\ app' = handleApiKeySubmit(app)
    /\ UNCHANGED <<call, returned, peer>>

\* lines 341-345 and 395-399
DoCloseModal ==
    /\ app.mounted
    /\ app.showApiKeyModal
    /\ app' = [app EXCEPT !.showApiKeyModal = FALSE,
                          !.apiKeyError = "",
                          !.tempApiKeyInput = << >>]
    /\ UNCHANGED <<call, returned, peer>>

\* line 202: the timeout of handleApiKeySubmit runs
DoRetry ==
    /\ app.mounted
    /\ \E timer \in app.timers :
          /\ \/ getActiveApiKey(timer.closure.userApiKey, app.envApiKey) = null
             \/ Cardinality(app.requests) < MaxPending
          /\ app' = handleVerifyWithGemini([app EXCEPT !.timers = app.timers \ {timer}],
                                           timer.closure)
    /\ UNCHANGED <<call, returned, peer>>

\* the response of the AI service to a request, or its failure
DoResume ==
    /\ app.mounted
    /\ \E request \in app.requests, outcome \in Outcomes :
          app' = VerificationResumes(app, request, outcome)
    /\ UNCHANGED <<call, returned, peer>>

\* lines 1041-1045
DoRemoveApiKey ==
    /\ app.mounted
    /\ ~app.isVerifying
    /\ ~app.showApiKeyModal
    /\ app.userApiKey # << >>
    /\ app' = [app EXCEPT !.userApiKey = << >>, !.aiAnalysis = null]
    /\ UNCHANGED <<call, returned, peer>>

VerificationInit ==
    /\ call = Idle
    /\ returned = {}
    /\ peer = Idle
    /\ \E envApiKey \in EnvApiKeys : app = Mounted(envApiKey)

VerificationNext ==
    \/ DoHandleInputChange(VerificationChanges)
    \/ DoVerify
    \/ DoTypeApiKey
    \/ DoApiKeySubmit
    \/ DoCloseModal
    \/ DoRetry
    \/ DoResume
    \/ DoRemoveApiKey

Verification == VerificationInit /\ [][VerificationNext]_vars

\* C29: whenever a report of the AI verification is shown, it was produced
\* from the form data now displayed, whatever the interleaving of
\* handleInputChange with a request that has no response yet.
C29_ReportOfCurrentForm ==
    (app.mounted /\ app.aiAnalysis # null) => app.aiAnalysis.about = app.formData

\* C30: when the timeout of a submitted key runs while that key is still the
\* user's key, the verification sends its request with that key; it does not
\* find no key, or another one, and open the modal again.
C30_RetryWithSubmittedKey ==
    [][\A timer \in app.timers :
          (timer \notin app'.timers /\ app.userApiKey = timer.submitted) =>
              /\ ~app'.showApiKeyModal
              /\ \E request \in app'.requests \ app.requests :
                    request.apiKey = timer.submitted]_vars
====
